---- MODULE Spec2Model ----
(***************************************************************************)
(* Model of hyena: networks of automata (hyena/ena.py), their states       *)
(* (hyena/__init__.py, Struct.state) and the successor generator           *)
(* System.succ.                                                            *)
(*                                                                         *)
(* Python tuples are functions over 0..k-1 so that indices keep the values *)
(* they have in the source; the lists a generator builds (todo, the        *)
(* successors it has yielded) are TLA+ sequences.                          *)
(***************************************************************************)
EXTENDS Integers, Sequences, FiniteSets, TLC

\* ------------------------------------------------------------------ bounds
\* largest value of a node's `count` in a state given to succ
MaxCount == 2

\* ------------------------------------------------------- program constants
\* examples/simple-bis.py: Transition.cost
TransitionCost == 42
\* examples/jump.py: the value of node.count at which the action jumps
JumpAt == 3

\* ------------------------------------------------------------------ tuples
Tup0(s) == [i \in 0..(Len(s) - 1) |-> s[i + 1]]
TupLen(t) == Cardinality(DOMAIN t)

\* ------------------------------------------------------ the automata (ena)
Transition(target, action) == [target |-> target, action |-> action]
Location(transitions) == [transitions |-> Tup0(transitions)]
Input(node) == [node |-> node]
Node(inputs, locations, current, count) ==
    [inputs |-> Tup0(inputs), locations |-> Tup0(locations),
     current |-> current, count |-> count]
System(nodes) == [nodes |-> Tup0(nodes)]

\* The network under analysis: two nodes reading each other, three
\* locations each, location 2 without transitions.  The actions are the
\* ones of the examples (simple, counter, jump) and actions that take the
\* other exits of a callable: return None, raise Abort, raise an error,
\* raise a Jump to a location that does not exist, raise a Jump that names
\* only the other node.
Net ==
    System(<<
        Node(<<Input(1)>>,
             <<Location(<<Transition(1, "simple"),
                          Transition(2, "skip"),
                          Transition(1, "counter")>>),
               Location(<<Transition(0, "jump"),
                          Transition(2, "abort"),
                          Transition(2, "simple")>>),
               Location(<<>>)>>,
             0, 0),
        Node(<<Input(0)>>,
             <<Location(<<Transition(1, "simple"),
                          Transition(2, "counter")>>),
               Location(<<Transition(0, "badjump"),
                          Transition(0, "jumpother"),
                          Transition(2, "fault")>>),
               Location(<<>>)>>,
             0, 0)
    >>)

NodeIds == DOMAIN Net.nodes

\* ------------------------------------------------------------------ states
\* Python's None where a State is expected
NoState == [struct |-> "none"]

\* State(struct, items) or None
State(struct, items) ==
    IF DOMAIN items = {} THEN NoState
    ELSE [struct |-> struct, items |-> items]

NoItems == [f \in {} |-> 0]

\* Struct.state of a Transition, an Input: every field is const
TransitionState(trans) == State("transition", NoItems)
InputState(input) == State("input", NoItems)

\* Struct.state of a Location: a tuple of structs is kept only if one of
\* them has a state
LocationState(location) ==
    LET st == [t \in DOMAIN location.transitions |->
                  TransitionState(location.transitions[t])]
        keep == IF \E t \in DOMAIN st : st[t] # NoState
                THEN {"transitions"} ELSE {}
    IN State("location", [f \in keep |-> st])

\* Python's None as the value of an integer field: a field that is not
\* prime and is missing from the description of the System is None.  The
\* counters of the model are never negative.
None == -1

\* Struct.state of a Node: current and count are the fields that are not
\* const, a plain field is kept only if its value is not None; inputs and
\* locations are tuples of structs
NodeState(node) ==
    LET ins == [i \in DOMAIN node.inputs |-> InputState(node.inputs[i])]
        locs == [l \in DOMAIN node.locations |->
                    LocationState(node.locations[l])]
        keep == {"current"}
                \cup (IF node.count # None THEN {"count"} ELSE {})
                \cup (IF \E i \in DOMAIN ins : ins[i] # NoState
                      THEN {"inputs"} ELSE {})
                \cup (IF \E l \in DOMAIN locs : locs[l] # NoState
                      THEN {"locations"} ELSE {})
    IN State("node", [f \in keep |->
                         CASE f = "inputs" -> ins
                           [] f = "locations" -> locs
                           [] OTHER -> node[f]])

\* Struct.state of the System
SystemState(system) ==
    LET st == [n \in DOMAIN system.nodes |-> NodeState(system.nodes[n])]
        keep == IF \E n \in DOMAIN st : st[n] # NoState
                THEN {"nodes"} ELSE {}
    IN State("system", [f \in keep |-> st])

\* mutant: only `current` is written back
SetNodeState_CurrentOnly(node, new) ==
    IF new.struct # "node" THEN node
    ELSE [f \in DOMAIN node |->
             IF f \in DOMAIN new.items /\ f = "current"
             THEN new.items[f] ELSE node[f]]

\* Struct.state = new, on a Node: every key of new is a plain value here
\* and is written with setattr
SetNodeState(node, new) ==
    IF new.struct # "node" THEN node
    ELSE [f \in DOMAIN node |->
             IF f \in DOMAIN new.items THEN new.items[f] ELSE node[f]]

\* Struct.state = new, on the System: nodes is a tuple of States, written
\* element-wise (zip stops at the shorter of the two)
SetSystemState(system, new) ==
    IF new.struct # "system" THEN system
    ELSE IF "nodes" \in DOMAIN new.items
    THEN [system EXCEPT !.nodes =
             [n \in DOMAIN system.nodes |->
                 IF n \in DOMAIN new.items.nodes
                 THEN SetNodeState(system.nodes[n], new.items.nodes[n])
                 ELSE system.nodes[n]]]
    ELSE system

\* the network with the given locations and counters
NetAt(cur, cnt) ==
    [Net EXCEPT !.nodes =
        [n \in NodeIds |->
            [Net.nodes[n] EXCEPT !.current = cur[n], !.count = cnt[n]]]]

\* the objects the System can be when succ is called and the States that
\* can be given to it
LiveSystems ==
    {NetAt(cur, cnt) :
        cur \in {c \in [NodeIds -> 0..2] :
                    \A n \in NodeIds : c[n] \in DOMAIN Net.nodes[n].locations},
        cnt \in [NodeIds -> 0..MaxCount]}
States == {SystemState(s) : s \in LiveSystems}

\* the states in which each counter is 0 or one step before the jump
EdgeStates ==
    {st \in States :
        \A n \in NodeIds : st.items.nodes[n].items.count \in {0, JumpAt - 1}}

\* ------------------------------------------------- outcomes of an action
\* what calling an action gives: the System as the action left it and how
\* the call ended ("cost": returned an integer, "none": returned None,
\* "jump", "abort", "fault": raised Jump, Abort, another exception)
Result(system, kind, cost, jumps) ==
    [system |-> system, kind |-> kind, cost |-> cost, jumps |-> jumps]
Return(system, cost) == Result(system, "cost", cost, <<>>)
ReturnNone(system) == Result(system, "none", 0, <<>>)
Abort(system) == Result(system, "abort", 0, <<>>)
Fault(system) == Result(system, "fault", 0, <<>>)

\* the positional arguments of Jump(...): an integer, None or a dict
IntArg(i) == [tag |-> "int", val |-> i]
NoneArg == [tag |-> "none", val |-> 0]
DictArg(pairs) == [tag |-> "dict", val |-> 0]

\* the (node, location) pairs of Jump.__init__: argument i names node i,
\* None names nothing
RECURSIVE JumpPairs(_, _)
JumpPairs(seq, i) ==
    IF i > Len(seq) THEN <<>>
    ELSE (IF seq[i].tag = "none" THEN <<>> ELSE <<<<i - 1, seq[i].val>>>>)
         \o JumpPairs(seq, i + 1)

\* raise Jump(*seq): int() fails on an argument that is not a number, and
\* the TypeError is what the action raises; the exception has its jumps
\* and no cost
Jump(system, seq) ==
    IF \E i \in 1..Len(seq) : seq[i].tag = "dict"
    THEN Fault(system)
    ELSE Result(system, "jump", 0, JumpPairs(seq, 1))

\* ------------------------------------------------------- actions (user code)
sameloc(system, n) ==
    LET idx == system.nodes[n].inputs[0].node
    IN system.nodes[n].current = system.nodes[idx].current

IncrCount(system, n) == [system EXCEPT !.nodes[n].count = @ + 1]

\* examples/simple-bis.py
ActSimple(system, n) ==
    IF sameloc(system, n) THEN Return(system, 0)
    ELSE Return(system, TransitionCost)

\* examples/counter-tpl.py
ActCounter(system, n) ==
    LET s1 == IncrCount(system, n)
    IN IF sameloc(s1, n) THEN Return(s1, 0)
       ELSE Return(s1, s1.nodes[n].count)

\* examples/jump.py
ActJump(system, n) ==
    LET s1 == IncrCount(system, n)
    IN IF s1.nodes[n].count = JumpAt
       THEN Jump([s1 EXCEPT !.nodes[n].count = 0],
                 <<IntArg(0), DictArg(<<<<0, 0>>, <<1, 0>>>>)>>)
       ELSE IF sameloc(s1, n) THEN Return(s1, 0)
       ELSE Return(s1, s1.nodes[n].count)

\* an action that changes a field and does not fire
ActSkip(system, n) == ReturnNone(IncrCount(system, n))

\* an action that changes a field and raises Abort
ActAbort(system, n) == Abort(IncrCount(system, n))

\* an action that changes a field and fails when the two nodes are in the
\* same location
ActFault(system, n) ==
    LET s1 == IncrCount(system, n)
    IN IF sameloc(s1, n) THEN Fault(s1) ELSE Return(s1, 1)

\* as jump.py, but the jump names a valid pair and then a location that
\* the node does not have
ActBadJump(system, n) ==
    LET s1 == IncrCount(system, n)
    IN IF s1.nodes[n].count = JumpAt
       THEN Jump([s1 EXCEPT !.nodes[n].count = 0],
                 <<IntArg(1), IntArg(TupLen(s1.nodes[1].locations))>>)
       ELSE Return(s1, s1.nodes[n].count)

\* a jump of node 1 that names only node 0
ActJumpOther(system, n) == Jump(system, <<IntArg(2)>>)

\* an action that assigns the counter and the location of its node and
\* returns None
ActReset(system, n) ==
    ReturnNone([system EXCEPT !.nodes[n].count = 0, !.nodes[n].current = 0])

\* the body of the callable bound to a transition
Func(action, system, n) ==
    CASE action = "simple" -> ActSimple(system, n)
      [] action = "reset" -> ActReset(system, n)
      [] action = "counter" -> ActCounter(system, n)
      [] action = "jump" -> ActJump(system, n)
      [] action = "skip" -> ActSkip(system, n)
      [] action = "abort" -> ActAbort(system, n)
      [] action = "fault" -> ActFault(system, n)
      [] action = "badjump" -> ActBadJump(system, n)
      [] action = "jumpother" -> ActJumpOther(system, n)

\* Method.__call__ with self.action set: the state is saved before the
\* callable runs and written back if it returns None
MethodCall(action, system, n) ==
    LET state == SystemState(system)
        ret == Func(action, system, n)
    IN IF ret.kind = "none"
       THEN [ret EXCEPT !.system = SetSystemState(ret.system, state)]
       ELSE ret

\* ------------------------------------------------------------ System.succ
Path(n, l, t) == <<"nodes", n, "locations", l, "transitions", t>>

\* Struct.__getitem__ on the path of a transition, and on its first two
\* items
TransAt(system, path) ==
    system.nodes[path[2]].locations[path[4]].transitions[path[6]]

\* the list comprehension of succ: nodes in order and, for each, the
\* transitions of its current location in order
RECURSIVE TodoFrom(_, _)
TodoFrom(system, n) ==
    IF n \notin DOMAIN system.nodes THEN <<>>
    ELSE LET node == system.nodes[n]
             k == TupLen(node.locations[node.current].transitions)
         IN [i \in 1..k |-> Path(n, node.current, i - 1)]
            \o TodoFrom(system, n + 1)
Todo(system) == TodoFrom(system, 0)

\* mutant: the location is not checked against the locations of the node
RECURSIVE ApplyJumps_NoCheck(_, _)
ApplyJumps_NoCheck(system, jumps) ==
    IF jumps = <<>> THEN [system |-> system, ok |-> TRUE]
    ELSE ApplyJumps_NoCheck(
             [system EXCEPT !.nodes[Head(jumps)[1]].current = Head(jumps)[2]],
             Tail(jumps))

\* the loop of the Jump handler: the pairs are written one after the other
\* until one names a location the node does not have
RECURSIVE ApplyJumps(_, _)
ApplyJumps(system, jumps) ==
    IF jumps = <<>> THEN [system |-> system, ok |-> TRUE]
    ELSE LET nid == Head(jumps)[1]
             loc == Head(jumps)[2]
             node == system.nodes[nid]
         IN IF 0 <= loc /\ loc < TupLen(node.locations)
            THEN ApplyJumps([system EXCEPT !.nodes[nid].current = loc],
                            Tail(jumps))
            ELSE [system |-> system, ok |-> FALSE]

\* mutant: todo is computed before the state given is written
Enter_TodoBefore(system, arg) ==
    LET old == SystemState(system)
        state == IF arg = NoState THEN old ELSE arg
        entered == IF arg = NoState THEN system
                   ELSE SetSystemState(system, state)
    IN [old |-> old, state |-> state, system |-> entered,
        todo |-> Todo(system)]

\* succ up to the loop: old is the live state, the state given is written
\* into the System (none given: the live state is the one explored) and
\* todo lists the candidates of the System as it then is
Enter(system, arg) ==
    LET old == SystemState(system)
        state == IF arg = NoState THEN old ELSE arg
        entered == IF arg = NoState THEN system
                   ELSE SetSystemState(system, state)
    IN [old |-> old, state |-> state, system |-> entered,
        todo |-> Todo(entered)]

\* mutant: the state is not written before the action is called
Candidate_NoWrite(system, state, path) ==
    LET trans == TransAt(system, path)
        ret == MethodCall(trans.action, system, path[2])
    IN CASE ret.kind = "cost" ->
              [system |-> [ret.system EXCEPT
                              !.nodes[path[2]].current = trans.target],
               exit |-> "yield", cost |-> ret.cost]
         [] ret.kind = "none" ->
              [system |-> ret.system, exit |-> "pass", cost |-> 0]
         [] ret.kind = "abort" ->
              [system |-> ret.system, exit |-> "pass", cost |-> 0]
         [] ret.kind = "jump" ->
              LET jmp == ApplyJumps(ret.system, ret.jumps)
              IN [system |-> jmp.system,
                  exit |-> IF jmp.ok THEN "AttributeError"
                           ELSE "ValueError",
                  cost |-> 0]
         [] ret.kind = "fault" ->
              [system |-> ret.system, exit |-> "Fault", cost |-> 0]

\* mutant: the target is written to node 0, whatever node fires
Candidate_WrongNode(system, state, path) ==
    LET trans == TransAt(system, path)
        ret == MethodCall(trans.action, SetSystemState(system, state),
                          path[2])
    IN CASE ret.kind = "cost" ->
              [system |-> [ret.system EXCEPT
                              !.nodes[0].current = trans.target],
               exit |-> "yield", cost |-> ret.cost]
         [] ret.kind = "none" ->
              [system |-> ret.system, exit |-> "pass", cost |-> 0]
         [] ret.kind = "abort" ->
              [system |-> ret.system, exit |-> "pass", cost |-> 0]
         [] ret.kind = "jump" ->
              LET jmp == ApplyJumps(ret.system, ret.jumps)
              IN [system |-> jmp.system,
                  exit |-> IF jmp.ok THEN "AttributeError"
                           ELSE "ValueError",
                  cost |-> 0]
         [] ret.kind = "fault" ->
              [system |-> ret.system, exit |-> "Fault", cost |-> 0]

\* mutant: the location after the target is written
Candidate_OffByOne(system, state, path) ==
    LET trans == TransAt(system, path)
        ret == MethodCall(trans.action, SetSystemState(system, state),
                          path[2])
    IN CASE ret.kind = "cost" ->
              [system |-> [ret.system EXCEPT
                              !.nodes[path[2]].current = trans.target + 1],
               exit |-> "yield", cost |-> ret.cost]
         [] ret.kind = "none" ->
              [system |-> ret.system, exit |-> "pass", cost |-> 0]
         [] ret.kind = "abort" ->
              [system |-> ret.system, exit |-> "pass", cost |-> 0]
         [] ret.kind = "jump" ->
              LET jmp == ApplyJumps(ret.system, ret.jumps)
              IN [system |-> jmp.system,
                  exit |-> IF jmp.ok THEN "AttributeError"
                           ELSE "ValueError",
                  cost |-> 0]
         [] ret.kind = "fault" ->
              [system |-> ret.system, exit |-> "Fault", cost |-> 0]

\* one pass of the body of the loop, up to the yield or to the finally:
\* the state is written, the action called, its outcome applied
Candidate(system, state, path) ==
    LET trans == TransAt(system, path)
        ret == MethodCall(trans.action, SetSystemState(system, state),
                          path[2])
    IN CASE ret.kind = "cost" ->
              [system |-> [ret.system EXCEPT
                              !.nodes[path[2]].current = trans.target],
               exit |-> "yield", cost |-> ret.cost]
         [] ret.kind = "none" ->
              [system |-> ret.system, exit |-> "pass", cost |-> 0]
         [] ret.kind = "abort" ->
              [system |-> ret.system, exit |-> "pass", cost |-> 0]
         [] ret.kind = "jump" ->
              LET jmp == ApplyJumps(ret.system, ret.jumps)
              IN [system |-> jmp.system,
                  exit |-> IF jmp.ok THEN "AttributeError"
                           ELSE "ValueError",
                  cost |-> 0]
         [] ret.kind = "fault" ->
              [system |-> ret.system, exit |-> "Fault", cost |-> 0]

\* tuple(system.succ(state)): the generator is consumed to its end in one
\* go.  The finally of the loop body runs when the generator is resumed
\* after a yield, after a candidate that does not fire, and when an error
\* leaves the loop.
\* (Binding a value with CHOOSE r \in {... : c \in {value}} : TRUE makes
\* it computed once where a LET would compute it at each use.)
RECURSIVE SuccLoop(_, _, _, _)
\* what follows the candidate c, the outcome of todo[i]
SuccTurn(c, e, i, out) ==
    CASE c.exit = "yield" ->
           SuccLoop(SetSystemState(c.system, e.old), e, i + 1,
                    Append(out, <<SystemState(c.system), e.todo[i], c.cost>>))
      [] c.exit = "pass" ->
           SuccLoop(SetSystemState(c.system, e.old), e, i + 1, out)
      [] OTHER ->
           [system |-> SetSystemState(c.system, e.old), out |-> out,
            err |-> c.exit]

SuccLoop(system, e, i, out) ==
    IF i > Len(e.todo) THEN [system |-> system, out |-> out, err |-> ""]
    ELSE CHOOSE r \in {SuccTurn(c, e, i, o) :
                          c \in {Candidate(system, e.state, e.todo[i])},
                          o \in {out}} : TRUE

SuccAll(system, arg) ==
    CHOOSE r \in {SuccLoop(e.system, e, 1, <<>>) :
                     e \in {Enter(system, arg)}} : TRUE

\* ---------------------------------------------------------- state machine
VARIABLES
    sys,    \* the live System
    gen,    \* the succ generators: position and locals of each
    pre,    \* for each generator, the System as it was when its body
            \* started to run
    exp,    \* the Explorer (hyena/reach.py) and the position of its iterator
    tr,     \* the last call of Explorer.trace and what it returned
    att,    \* the last assignment of an attribute of a Struct and its exit
    file,   \* the last call of Explorer.save and what it wrote
    run     \* what a client of the library has called (diff, succ and the
            \* firing of a successor) and what it got

vars == <<sys, gen, pre, exp, tr, att, file, run>>

\* what the steps of a succ generator leave alone
rest == <<exp, tr, att, file, run>>

\* no Explorer has been built, trace has not been called, no attribute
\* has been assigned, save has not been called, no client runs
NoExplorer == [pc |-> "none"]
NoTrace == [called |-> FALSE]
NoAttempt == [made |-> FALSE]
NoFile == [called |-> FALSE]
NoRun == [made |-> FALSE]

GenIds == {1, 2}

\* a generator that has not been created
NoGen == [pc |-> "idle", arg |-> NoState, old |-> NoState,
          state |-> NoState, todo |-> <<>>, idx |-> 0, out |-> <<>>,
          err |-> ""]

\* the caller runs only while no generator does
CallerRuns == \A g \in GenIds : gen[g].pc # "running"

\* the System is in any state; no generator exists
Init ==
    /\ sys \in LiveSystems
    /\ gen = [g \in GenIds |-> NoGen]
    /\ pre = [g \in GenIds |-> NoState]
    /\ exp = NoExplorer
    /\ tr = NoTrace
    /\ att = NoAttempt
    /\ file = NoFile
    /\ run = NoRun

\* system.succ(state), or system.succ() when state is NoState: the
\* generator is created, its body does not run yet
Call(g, state) ==
    /\ CallerRuns
    /\ gen[g].pc = "idle"
    /\ gen' = [gen EXCEPT ![g] = [NoGen EXCEPT !.pc = "created",
                                                !.arg = state]]
    /\ UNCHANGED <<sys, pre, rest>>

\* first next() of the generator: old, state and todo are computed
\* (succ, up to the loop)
Start(g) ==
    /\ CallerRuns
    /\ gen[g].pc = "created"
    /\ LET e == Enter(sys, gen[g].arg)
       IN /\ sys' = e.system
          /\ gen' = [gen EXCEPT ![g] = [@ EXCEPT !.pc = "running",
                                                 !.old = e.old,
                                                 !.state = e.state,
                                                 !.todo = e.todo,
                                                 !.idx = 1]]
    /\ pre' = [pre EXCEPT ![g] = sys]
    /\ UNCHANGED rest

\* the candidate the loop is at
AtCandidate(g) ==
    /\ gen[g].pc = "running"
    /\ gen[g].idx <= Len(gen[g].todo)

Cand(g) == Candidate(sys, gen[g].state, gen[g].todo[gen[g].idx])

\* the candidate fires (its action returned a cost): the generator is
\* suspended at the yield
Yield(g) ==
    /\ AtCandidate(g)
    /\ Cand(g).exit = "yield"
    /\ sys' = Cand(g).system
    /\ gen' = [gen EXCEPT ![g] =
                  [@ EXCEPT !.pc = "suspended",
                            !.out = Append(@, <<SystemState(Cand(g).system),
                                                gen[g].todo[gen[g].idx],
                                                Cand(g).cost>>)]]
    /\ UNCHANGED <<pre, rest>>

\* the candidate does not fire (None or Abort): finally, next candidate
Pass(g) ==
    /\ AtCandidate(g)
    /\ Cand(g).exit = "pass"
    /\ sys' = SetSystemState(Cand(g).system, gen[g].old)
    /\ gen' = [gen EXCEPT ![g] = [@ EXCEPT !.idx = @ + 1]]
    /\ UNCHANGED <<pre, rest>>

\* mutant: the error leaves the generator without the finally
Raise_NoRestore(g) ==
    /\ AtCandidate(g)
    /\ Cand(g).exit \in {"ValueError", "AttributeError", "Fault"}
    /\ sys' = Cand(g).system
    /\ gen' = [gen EXCEPT ![g] = [@ EXCEPT !.pc = "failed",
                                            !.err = Cand(g).exit]]
    /\ UNCHANGED <<pre, rest>>

\* the candidate raises (an error of the action, the ValueError of an
\* invalid jump, or the AttributeError of jmp.cost, which Jump does not
\* have): finally, and the error leaves the generator
Raise(g) ==
    /\ AtCandidate(g)
    /\ Cand(g).exit \in {"ValueError", "AttributeError", "Fault"}
    /\ sys' = SetSystemState(Cand(g).system, gen[g].old)
    /\ gen' = [gen EXCEPT ![g] = [@ EXCEPT !.pc = "failed",
                                            !.err = Cand(g).exit]]
    /\ UNCHANGED <<pre, rest>>

\* next() of a suspended generator: finally, next candidate
Resume(g) ==
    /\ CallerRuns
    /\ gen[g].pc = "suspended"
    /\ sys' = SetSystemState(sys, gen[g].old)
    /\ gen' = [gen EXCEPT ![g] = [@ EXCEPT !.pc = "running",
                                            !.idx = @ + 1]]
    /\ UNCHANGED <<pre, rest>>

\* the loop is over: StopIteration
Stop(g) ==
    /\ gen[g].pc = "running"
    /\ gen[g].idx > Len(gen[g].todo)
    /\ gen' = [gen EXCEPT ![g] = [@ EXCEPT !.pc = "done"]]
    /\ UNCHANGED <<sys, pre, rest>>

Step(g) ==
    \/ \E state \in States \cup {NoState} : Call(g, state)
    \/ Start(g)
    \/ Yield(g)
    \/ Pass(g)
    \/ Raise(g)
    \/ Resume(g)
    \/ Stop(g)

\* one generator: a call of succ is consumed before anything else happens
Next == Step(1)
Spec == Init /\ [][Next]_vars

\* ---- two calls with the same state, one after the other
Finished(g) == gen[g].pc \in {"done", "failed"}

\* system.state = state, by the caller, between the two calls
Assign(state) ==
    /\ Finished(1)
    /\ gen[2].pc = "idle"
    /\ sys' = SetSystemState(sys, state)
    /\ UNCHANGED <<gen, pre, rest>>

\* the second call is given the state the first one explored
CallAgain ==
    /\ Finished(1)
    /\ Call(2, gen[1].state)

InitNet ==
    /\ sys = Net
    /\ gen = [g \in GenIds |-> NoGen]
    /\ pre = [g \in GenIds |-> NoState]
    /\ exp = NoExplorer
    /\ tr = NoTrace
    /\ att = NoAttempt
    /\ file = NoFile
    /\ run = NoRun

NextTwice ==
    \/ Step(1)
    \/ \E state \in EdgeStates : Assign(state)
    \/ CallAgain
    \/ Start(2)
    \/ Yield(2)
    \/ Pass(2)
    \/ Raise(2)
    \/ Resume(2)
    \/ Stop(2)
SpecTwice == InitNet /\ [][NextTwice]_vars

\* ---- two generators whose steps are interleaved: the second is created
\* while the first is suspended at a yield
CallNested(state) ==
    /\ gen[1].pc = "suspended"
    /\ Call(2, state)

NextNested ==
    \/ \E state \in EdgeStates \cup {NoState} : Call(1, state)
    \/ Start(1)
    \/ Yield(1)
    \/ Pass(1)
    \/ Raise(1)
    \/ Resume(1)
    \/ Stop(1)
    \/ \E state \in EdgeStates \cup {NoState} : CallNested(state)
    \/ Start(2)
    \/ Yield(2)
    \/ Pass(2)
    \/ Raise(2)
    \/ Resume(2)
    \/ Stop(2)
SpecNested == InitNet /\ [][NextNested]_vars

\* ------------------------------------------------------------- properties
Done(g) == gen[g].pc = "done"
Failed(g) == gen[g].pc = "failed"
Started(g) == gen[g].pc \notin {"idle", "created"}

\* the location of node n in a State
Cur(state, n) == state.items.nodes[n].items.current

\* the System in the given state, and what a transition does when it is
\* the only one tried from that state
Fresh(state) == SetSystemState(Net, state)
Alone(state, path) == Candidate(Fresh(state), state, path)
AloneRet(state, path) ==
    MethodCall(TransAt(Net, path).action, Fresh(state), path[2])

\* a jump names a location that its node does not have
InvalidJump(jumps) ==
    \E k \in 1..Len(jumps) :
        ~(0 <= jumps[k][2]
          /\ jumps[k][2] < TupLen(Net.nodes[jumps[k][1]].locations))

\* the candidates of a generator whose evaluation is over
Evaluated(g) ==
    CASE gen[g].pc = "running" -> 1..(gen[g].idx - 1)
      [] gen[g].pc \in {"suspended", "failed"} -> 1..gen[g].idx
      [] gen[g].pc = "done" -> 1..Len(gen[g].todo)
      [] OTHER -> {}

\* the order of the candidates: node index, then transition index
PathLess(p, q) == p[2] < q[2] \/ (p[2] = q[2] /\ p[6] < q[6])

\* C1 (State restoration): once succ(s) has been consumed to the end, the
\* System is as it was immediately before the call.
C1_Restored == Done(1) => sys = pre[1]

C4_Canonical ==
    \A g \in GenIds : Started(g) =>
        LET st == gen[g].state
            todo == gen[g].todo
            out == gen[g].out
        IN /\ \A i \in 1..Len(todo) :
                 \E n \in NodeIds :
                    \E t \in DOMAIN Net.nodes[n].locations[Cur(st, n)]
                                       .transitions :
                        todo[i] = <<"nodes", n, "locations", Cur(st, n),
                                    "transitions", t>>
           /\ \A n \in NodeIds :
                 \A t \in DOMAIN Net.nodes[n].locations[Cur(st, n)]
                                    .transitions :
                    \E i \in 1..Len(todo) :
                        todo[i] = <<"nodes", n, "locations", Cur(st, n),
                                    "transitions", t>>
           /\ \A i, j \in 1..Len(todo) :
                 i < j => PathLess(todo[i], todo[j])
           /\ \A i, j \in 1..Len(out) :
                 i < j => PathLess(out[i][2], out[j][2])
           /\ \A j \in 1..Len(out) :
                 \E i \in Evaluated(g) : out[j][2] = todo[i]
           /\ Done(g) =>
                 \A i \in 1..Len(todo) :
                    AloneRet(st, todo[i]).kind = "cost" =>
                        \E j \in 1..Len(out) : out[j][2] = todo[i]

\* a call is over that was given a state in which both nodes are in
\* another location than in the live state, and both nodes have fired
C4_Witness ==
    /\ Done(1)
    /\ \A n \in NodeIds : pre[1].nodes[n].current # Cur(gen[1].state, n)
    /\ \A n \in NodeIds :
          \E j \in 1..Len(gen[1].out) : gen[1].out[j][2][2] = n

\* C5 (One transition per successor): a successor yielded for a transition
\* of node n that returned a cost has node n at the target of the
\* transition and every other node as it is in the source state.
C5_OnlyOwner ==
    \A g \in GenIds : \A j \in 1..Len(gen[g].out) :
        LET e == gen[g].out[j]
            n == e[2][2]
        IN /\ Cur(e[1], n) = TransAt(Net, e[2]).target
           /\ \A m \in NodeIds \ {n} :
                 e[1].items.nodes[m] = gen[g].state.items.nodes[m]

\* node 1 has fired its counter action from a state that is not the live
\* one: its counter changed, node 0 did not
C5_Witness ==
    /\ gen[1].pc = "suspended"
    /\ gen[1].old # gen[1].state
    /\ LET e == gen[1].out[Len(gen[1].out)]
       IN /\ e[2] = Path(1, 0, 1)
          /\ e[1].items.nodes[1].items.count
                # gen[1].state.items.nodes[1].items.count
          /\ Cur(gen[1].old, 0) # Cur(gen[1].state, 0)

\* C6 (Does not fire): a candidate whose action returns None or raises
\* Abort yields nothing and the next candidate is tried, so that a call in
\* which no action fails and no jump is invalid yields as many successors
\* as it has candidates whose outcome is a cost or a jump.
C6_Count ==
    \A g \in GenIds :
        (/\ Finished(g)
         /\ \A i \in 1..Len(gen[g].todo) :
               LET r == AloneRet(gen[g].state, gen[g].todo[i])
               IN r.kind # "fault" /\ ~InvalidJump(r.jumps))
        => Len(gen[g].out) =
              Cardinality({i \in 1..Len(gen[g].todo) :
                  AloneRet(gen[g].state, gen[g].todo[i]).kind
                      \in {"cost", "jump"}})

\* C7 (Jump outcome): a candidate whose action raises a Jump with valid
\* pairs yields a successor in which every node named is at the location
\* named and the owning node, if not named, is where it was.
C7_JumpYields ==
    \A g \in GenIds : \A i \in Evaluated(g) :
        LET path == gen[g].todo[i]
            r == AloneRet(gen[g].state, path)
        IN (r.kind = "jump" /\ ~InvalidJump(r.jumps)) =>
              \E j \in 1..Len(gen[g].out) :
                 LET e == gen[g].out[j]
                 IN /\ e[2] = path
                    /\ \A k \in 1..Len(r.jumps) :
                          Cur(e[1], r.jumps[k][1]) = r.jumps[k][2]
                    /\ (\A k \in 1..Len(r.jumps) :
                           r.jumps[k][1] # path[2])
                       => Cur(e[1], path[2]) = Cur(gen[g].state, path[2])

\* C8 (Jump validity): a jump that names a location its node does not have
\* raises ValueError out of succ: that candidate is the last one tried,
\* nothing is yielded for it, and the System is as before the call, the
\* writes of the valid pairs listed first included.
C8_InvalidJump ==
    \A g \in GenIds :
        /\ \A i \in Evaluated(g) :
              LET r == AloneRet(gen[g].state, gen[g].todo[i])
              IN (r.kind = "jump" /\ InvalidJump(r.jumps)) =>
                    /\ Failed(g)
                    /\ gen[g].err = "ValueError"
                    /\ gen[g].idx = i
                    /\ \A j \in 1..Len(gen[g].out) :
                          PathLess(gen[g].out[j][2], gen[g].todo[i])
        /\ (Failed(g) /\ gen[g].err = "ValueError") =>
              \A n \in NodeIds :
                 sys.nodes[n].current = pre[g].nodes[n].current

\* the jump of node 1 failed on its second pair after its first pair had
\* moved node 0, and a candidate after it was never tried
C8_Witness ==
    /\ Failed(1)
    /\ gen[1].err = "ValueError"
    /\ gen[1].todo[gen[1].idx] = Path(1, 1, 0)
    /\ gen[1].idx < Len(gen[1].todo)
    /\ pre[1].nodes[0].current # 1
    /\ Cur(gen[1].state, 0) # 1

RECURSIVE AloneYields(_, _, _)
AloneYields(state, todo, i) ==
    IF i > Len(todo) THEN <<>>
    ELSE LET a == Alone(state, todo[i])
         IN IF a.exit = "yield"
            THEN <<<<SystemState(a.system), todo[i], a.cost>>>>
                 \o AloneYields(state, todo, i + 1)
            ELSE IF a.exit = "pass" THEN AloneYields(state, todo, i + 1)
            ELSE <<>>

\* C10 (Reentrancy): of two generators whose steps are interleaved, each
\* yields what it yields alone, and when both are exhausted the System is
\* as it was before the first one started.
C10_Reentrant ==
    /\ \A g \in GenIds :
          Finished(g) =>
             gen[g].out = AloneYields(gen[g].state,
                                      Todo(Fresh(gen[g].state)), 1)
    /\ (Done(1) /\ Done(2)) => sys = pre[1]

\* ================================================================ Explorer
\* ------------------------------------------------------------------ bounds
\* largest value of Explorer.limit
MaxLimit == 6

\* A network whose state space is finite: the actions of simple-bis.py and
\* the two that do not fire.  Node 0 has a transition from location 0 to
\* itself, the two nodes move independently, so that a state is reached
\* along paths of different lengths.
Ring ==
    System(<<
        Node(<<Input(1)>>,
             <<Location(<<Transition(1, "simple"),
                          Transition(0, "simple"),
                          Transition(2, "skip")>>),
               Location(<<Transition(2, "simple"),
                          Transition(0, "abort")>>),
               Location(<<Transition(0, "simple")>>)>>,
             0, 0),
        Node(<<Input(0)>>,
             <<Location(<<Transition(1, "simple")>>),
               Location(<<Transition(2, "simple"),
                          Transition(0, "simple")>>),
               Location(<<>>)>>,
             0, 0)
    >>)

\* the network with its nodes in the given locations
RingAt(cur) ==
    [Ring EXCEPT !.nodes =
        [n \in DOMAIN Ring.nodes |-> [Ring.nodes[n] EXCEPT !.current = cur[n]]]]

RingSystems ==
    {RingAt(cur) :
        cur \in {c \in [DOMAIN Ring.nodes -> 0..2] :
                    \A n \in DOMAIN Ring.nodes :
                        c[n] \in DOMAIN Ring.nodes[n].locations}}

\* Net with its counters at 0 or one step before the jump
EdgeSystems == {s \in LiveSystems : SystemState(s) \in EdgeStates}

\* ------------------------------------------------------------- assertions
\* the sources given as props: expressions over `system`
PropCur0 == "system.nodes[0].current != 2"
PropCur1 == "system.nodes[1].current < 2"
PropDiv == "1 // (system.nodes[0].current - 2)"
PropCount == "system.nodes[0].count < 2"
PropSyntax == "system.nodes["

\* compile(prop, ..., "eval") succeeds
Compiles(prop) == prop # PropSyntax

\* eval(code, {"system": system}) and the truth of its value
EvalProp(prop, system) ==
    CASE prop = PropCur0 ->
           IF system.nodes[0].current # 2 THEN "True" ELSE "False"
      [] prop = PropCur1 ->
           IF system.nodes[1].current < 2 THEN "True" ELSE "False"
      [] prop = PropCount ->
           IF system.nodes[0].count < 2 THEN "True" ELSE "False"
      [] prop = PropDiv ->
           IF system.nodes[0].current - 2 = 0 THEN "ZeroDivisionError"
           ELSE "True"

PropLists ==
    {<<>>, <<PropCount>>, <<PropCur0, PropDiv>>, <<PropDiv, PropCur0>>,
     <<PropCur1, PropCur0>>, <<PropCur0, PropSyntax>>}

\* --------------------------------------------------------------- Explorer
\* limit=None
NoLimit == -1

\* the values of Explorer.succ: None for a state that waits in todo, the
\* tuple of its successors for a state that has been expanded
Pending == [pending |-> TRUE, succs |-> <<>>]
Known(succs) == [pending |-> FALSE, succs |-> succs]

\* self.succ = {}
NoSucc == [s \in {} |-> Pending]

\* self.succ[state] = value
Put(map, state, value) ==
    [s \in DOMAIN map \cup {state} |-> IF s = state THEN value ELSE map[s]]

\* AssertFailed(prop, state, err)
AssertFailed(prop, state, err) == [prop |-> prop, state |-> state, err |-> err]
NoError == [prop |-> "", state |-> NoState, err |-> ""]

\* mutant: every source is taken to compile
FirstBad_None(props, i) == 0

\* Explorer.compile: the first source that does not compile, 0 if all do
RECURSIVE FirstBad(_, _)
FirstBad(props, i) ==
    IF i > Len(props) THEN 0
    ELSE IF ~Compiles(props[i]) THEN i
    ELSE FirstBad(props, i + 1)

\* Explorer(system, depth, limit, props): the iterator has not started.
\* `expanded` lists the states succ has been called with, in order;
\* `keys` lists the keys of self.succ in the order a dict keeps them, the
\* order of their first insertion; `stops` counts the KeyboardInterrupts
\* the iterator has received.
Explorer(system, depth, limit, props) ==
    LET bad == FirstBad(props, 1)
        init == SystemState(system)
    IN [pc |-> IF bad = 0 THEN "ready" ELSE "invalid",
        init |-> init,
        succ |-> NoSucc,
        keys |-> <<>>,
        todo |-> <<init>>,
        depth |-> depth,
        limit |-> limit,
        props |-> props,
        state |-> NoState,
        idx |-> 0,
        err |-> IF bad = 0 THEN NoError
                ELSE AssertFailed(props[bad], NoState, "SyntaxError"),
        expanded |-> <<>>,
        stops |-> 0]

\* mutant: only the expanded states are counted
ExpLen_Expanded(e) == Len(e.expanded)

\* len(explorer)
ExpLen(e) == Cardinality(DOMAIN e.succ)
\* ---- Explorer.__iter__, one action for each step of the loop body
\* the first source of props, in order, whose value is not true; 0 if none
RECURSIVE FirstFailed(_, _, _)
FirstFailed(props, system, i) ==
    IF i > Len(props) THEN 0
    ELSE IF EvalProp(props[i], system) # "True" THEN i
    ELSE FirstFailed(props, system, i + 1)

\* mutant: the popped state is not written into the System
ExpPop_NoWrite ==
    /\ exp.pc = "ready"
    /\ exp.todo # <<>>
    /\ LET state == IF exp.depth THEN exp.todo[Len(exp.todo)]
                    ELSE Head(exp.todo)
           todo == IF exp.depth THEN SubSeq(exp.todo, 1, Len(exp.todo) - 1)
                   ELSE Tail(exp.todo)
       IN /\ exp' = [exp EXCEPT !.pc = "popped", !.state = state,
                                !.todo = todo]
          /\ sys' = sys
    /\ tr' = NoTrace
    /\ UNCHANGED <<gen, pre, att, file, run>>

\* mutant: pop and popleft are exchanged
ExpPop_Swapped ==
    /\ exp.pc = "ready"
    /\ exp.todo # <<>>
    /\ LET state == IF ~exp.depth THEN exp.todo[Len(exp.todo)]
                    ELSE Head(exp.todo)
           todo == IF ~exp.depth THEN SubSeq(exp.todo, 1, Len(exp.todo) - 1)
                   ELSE Tail(exp.todo)
       IN /\ exp' = [exp EXCEPT !.pc = "popped", !.state = state,
                                !.todo = todo]
          /\ sys' = SetSystemState(sys, state)
    /\ tr' = NoTrace
    /\ UNCHANGED <<gen, pre, att, file, run>>

\* state = self.system.state = self.todo.pop() or popleft()
ExpPop ==
    /\ exp.pc = "ready"
    /\ exp.todo # <<>>
    /\ LET state == IF exp.depth THEN exp.todo[Len(exp.todo)]
                    ELSE Head(exp.todo)
           todo == IF exp.depth THEN SubSeq(exp.todo, 1, Len(exp.todo) - 1)
                   ELSE Tail(exp.todo)
       IN /\ exp' = [exp EXCEPT !.pc = "popped", !.state = state,
                                !.todo = todo]
          /\ sys' = SetSystemState(sys, state)
    /\ tr' = NoTrace
    /\ UNCHANGED <<gen, pre, att, file, run>>

\* the loop over self.props: AssertFailed at the first source whose value
\* is false or whose evaluation raises
ExpCheck ==
    /\ exp.pc = "popped"
    /\ LET i == FirstFailed(exp.props, sys, 1)
       IN IF i = 0 THEN exp' = [exp EXCEPT !.pc = "checked"]
          ELSE LET val == EvalProp(exp.props[i], sys)
               IN exp' = [exp EXCEPT
                     !.pc = "failed",
                     !.err = AssertFailed(exp.props[i], exp.state,
                                          IF val = "False" THEN "" ELSE val)]
    /\ UNCHANGED <<sys, gen, pre, tr, att, file, run>>

\* succ = tuple(self.system.succ(state)); self.succ[state] = succ.  An
\* error raised by succ leaves the iterator.
ExpSucc ==
    /\ exp.pc = "checked"
    /\ LET r == SuccAll(sys, exp.state)
       IN /\ sys' = r.system
          /\ IF r.err = ""
             THEN exp' = [exp EXCEPT
                     !.pc = "recorded",
                     !.succ = Put(exp.succ, exp.state, Known(r.out)),
                     !.keys = IF exp.state \in DOMAIN exp.succ THEN @
                              ELSE Append(@, exp.state),
                     !.idx = 1,
                     !.expanded = Append(@, exp.state)]
             ELSE exp' = [exp EXCEPT
                     !.pc = "crashed",
                     !.err = [prop |-> "", state |-> exp.state,
                              err |-> r.err],
                     !.expanded = Append(@, exp.state)]
    /\ UNCHANGED <<gen, pre, tr, att, file, run>>

\* the successors the loop `for s, *_ in succ` runs over
ExpSuccs == exp.succ[exp.state].succs

\* mutant: a state put in the worklist is not marked as waiting
ExpEnqueue_NoMark ==
    /\ exp.pc = "recorded"
    /\ exp.idx <= Len(ExpSuccs)
    /\ LET s == ExpSuccs[exp.idx][1]
       IN IF /\ s \notin DOMAIN exp.succ
             /\ (exp.limit = NoLimit \/ ExpLen(exp) < exp.limit)
          THEN exp' = [exp EXCEPT !.todo = Append(@, s),
                                  !.idx = @ + 1]
          ELSE exp' = [exp EXCEPT !.idx = @ + 1]
    /\ UNCHANGED <<sys, gen, pre, tr, att, file, run>>

\* mutant: a state is put in the worklist only under a limit
ExpEnqueue_LimitOnly ==
    /\ exp.pc = "recorded"
    /\ exp.idx <= Len(ExpSuccs)
    /\ LET s == ExpSuccs[exp.idx][1]
       IN IF /\ s \notin DOMAIN exp.succ
             /\ (exp.limit # NoLimit /\ ExpLen(exp) < exp.limit)
          THEN exp' = [exp EXCEPT !.todo = Append(@, s),
                                  !.succ = Put(@, s, Pending),
                                  !.keys = Append(@, s),
                                  !.idx = @ + 1]
          ELSE exp' = [exp EXCEPT !.idx = @ + 1]
    /\ UNCHANGED <<sys, gen, pre, tr, att, file, run>>

\* mutant: the limit is compared with <=
ExpEnqueue_OffByOne ==
    /\ exp.pc = "recorded"
    /\ exp.idx <= Len(ExpSuccs)
    /\ LET s == ExpSuccs[exp.idx][1]
       IN IF /\ s \notin DOMAIN exp.succ
             /\ (exp.limit = NoLimit \/ ExpLen(exp) <= exp.limit)
          THEN exp' = [exp EXCEPT !.todo = Append(@, s),
                                  !.succ = Put(@, s, Pending),
                                  !.keys = Append(@, s),
                                  !.idx = @ + 1]
          ELSE exp' = [exp EXCEPT !.idx = @ + 1]
    /\ UNCHANGED <<sys, gen, pre, tr, att, file, run>>

\* one turn of the loop `for s, *_ in succ`
ExpEnqueue ==
    /\ exp.pc = "recorded"
    /\ exp.idx <= Len(ExpSuccs)
    /\ LET s == ExpSuccs[exp.idx][1]
       IN IF /\ s \notin DOMAIN exp.succ
             /\ (exp.limit = NoLimit \/ ExpLen(exp) < exp.limit)
          THEN exp' = [exp EXCEPT !.todo = Append(@, s),
                                  !.succ = Put(@, s, Pending),
                                  !.keys = Append(@, s),
                                  !.idx = @ + 1]
          ELSE exp' = [exp EXCEPT !.idx = @ + 1]
    /\ UNCHANGED <<sys, gen, pre, tr, att, file, run>>

\* yield state, succ
ExpYield ==
    /\ exp.pc = "recorded"
    /\ exp.idx > Len(ExpSuccs)
    /\ exp' = [exp EXCEPT !.pc = "ready"]
    /\ UNCHANGED <<sys, gen, pre, tr, att, file, run>>

\* `while self.todo` is false: the iterator is exhausted
ExpStop ==
    /\ exp.pc = "ready"
    /\ exp.todo = <<>>
    /\ exp' = [exp EXCEPT !.pc = "stopped"]
    /\ UNCHANGED <<sys, gen, pre, tr, att, file, run>>
\* ---- Explorer.trace
\* simul.py: Trans is a tuple, Event a record; NoTrans stands for the None
\* of the first event
NoTrans == <<>>
Trans(path) == path
Event(state, trans, cost) == [state |-> state, trans |-> trans, cost |-> cost]

\* what a call of trace gives: the list it returns, or the error it
\* raises ("hang": the while loop runs for ever)
Traced(events) == [ret |-> events, err |-> ""]
TraceError(err) == [ret |-> <<>>, err |-> err]

\* the two nested for loops of one turn of the while loop: old_paths[i] is
\* the path being extended, j the successor of its last state being looked
\* at.  Gives the new paths and the states seen, or what trace returns.
RECURSIVE TraceFor(_, _, _, _, _, _, _)
\* the body of the inner loop for the successor stc of the last state of
\* the path old
TraceSucc(e, state, old_paths, i, j, seen, new_paths, old, stc) ==
    IF stc[1] = state
    THEN [found |-> TRUE,
          res |-> Traced(Append(old, Event(stc[1], Trans(stc[2]), stc[3])))]
    ELSE IF stc[1] \notin seen
    THEN CHOOSE r \in
             {TraceFor(e, state, old_paths, i, j + 1, sn, np) :
                 sn \in {seen \cup {stc[1]}},
                 np \in {Append(new_paths,
                                Append(old, Event(stc[1], Trans(stc[2]),
                                                  stc[3])))}} : TRUE
    ELSE TraceFor(e, state, old_paths, i, j + 1, seen, new_paths)

TraceFor(e, state, old_paths, i, j, seen, new_paths) ==
    IF i > Len(old_paths)
    THEN [found |-> FALSE, seen |-> seen, new_paths |-> new_paths]
    ELSE LET old == old_paths[i]
             last == old[Len(old)].state
         IN IF last \notin DOMAIN e.succ
            THEN [found |-> TRUE, res |-> TraceError("KeyError")]
            ELSE IF e.succ[last].pending
            THEN [found |-> TRUE, res |-> TraceError("TypeError")]
            ELSE IF j > Len(e.succ[last].succs)
            THEN TraceFor(e, state, old_paths, i + 1, 1, seen, new_paths)
            ELSE TraceSucc(e, state, old_paths, i, j, seen, new_paths, old,
                           e.succ[last].succs[j])

\* while len(seen) < len(self.succ)
RECURSIVE TraceWhile(_, _, _, _)
\* what follows a turn of the while loop that gave r
TraceTurn(e, state, seen, r) ==
    IF r.found THEN r.res
    ELSE IF r.new_paths = <<>> /\ r.seen = seen THEN TraceError("hang")
    ELSE TraceWhile(e, state, r.new_paths, r.seen)

TraceWhile(e, state, old_paths, seen) ==
    IF ~(Cardinality(seen) < ExpLen(e)) THEN Traced(<<>>)
    ELSE CHOOSE res \in
             {TraceTurn(e, state, seen, r) :
                 r \in {TraceFor(e, state, old_paths, 1, 1, seen, <<>>)}} :
             TRUE

\* explorer.trace(state)
Trace(e, state) ==
    LET init == <<Event(e.init, NoTrans, 0)>>
    IN IF state = e.init THEN Traced(init)
       ELSE TraceWhile(e, state, <<init>>, {e.init})

\* the states the Explorer has met: recorded, or in a successor tuple
Met(e) ==
    DOMAIN e.succ \cup {e.init}
    \cup UNION {{e.succ[k].succs[j][1] : j \in 1..Len(e.succ[k].succs)} :
                   k \in DOMAIN e.succ}

\* a state no exploration meets: the counters start at 0 or above and are
\* incremented or set to 0
Elsewhere == SystemState(NetAt([n \in NodeIds |-> 2], [n \in NodeIds |-> -2]))

\* the caller calls explorer.trace(state) while the iterator is suspended
\* or has ended
TraceCall(state) ==
    /\ exp.pc \in {"ready", "failed", "crashed", "stopped", "interrupted"}
    /\ ~tr.called
    /\ tr' = [called |-> TRUE, state |-> state, res |-> Trace(exp, state)]
    /\ UNCHANGED <<sys, gen, pre, exp, att, file, run>>

\* ---- Explorer.save
\* json.dump of a State: the object of its items (the struct tag is an
\* attribute of the State, it is not written); a tuple is written as a list
JsonState(state) ==
    [nodes |-> [n \in DOMAIN state.items.nodes |->
                   state.items.nodes[n].items]]

\* mutant: the cost is not written
JsonSucc_NoCost(u) == [state |-> JsonState(u[1]), trans |-> u[2], action |-> 0]

\* {"state": s, "trans": t, "action": a} for s, t, a in succ
JsonSucc(u) == [state |-> JsonState(u[1]), trans |-> u[2], action |-> u[3]]

\* {"state": state, "succs": [...]} for one item of self.succ
JsonRecord(e, k) ==
    [state |-> JsonState(k),
     succs |-> [j \in 1..Len(e.succ[k].succs) |->
                   JsonSucc(e.succ[k].succs[j])]]

\* Explorer.save(out): the list is built before json.dump writes anything;
\* `for s, t, a in succ` raises TypeError at a key whose value is None
Save(e) ==
    IF \E i \in 1..Len(e.keys) : e.succ[e.keys[i]].pending
    THEN [called |-> TRUE, err |-> "TypeError", records |-> <<>>]
    ELSE [called |-> TRUE, err |-> "",
          records |-> [i \in 1..Len(e.keys) |-> JsonRecord(e, e.keys[i])]]

\* the caller calls explorer.save(out) once the iteration has ended:
\* worklist empty, AssertFailed, or KeyboardInterrupt
SaveCall ==
    /\ exp.pc \in {"stopped", "failed", "interrupted"}
    /\ ~file.called
    /\ file' = Save(exp)
    /\ UNCHANGED <<sys, gen, pre, exp, tr, att, run>>

\* ---- the Explorer specification
\* a finite network with any limit, or Net with a limit
ExploreInits ==
    {[sys |-> s, limit |-> l] :
        s \in RingSystems, l \in (1..MaxLimit) \cup {NoLimit}}
    \cup {[sys |-> s, limit |-> l] : s \in EdgeSystems, l \in 1..MaxLimit}

InitExplore ==
    /\ \E c \in ExploreInits, depth \in BOOLEAN, props \in PropLists :
          /\ sys = c.sys
          /\ exp = Explorer(c.sys, depth, c.limit, props)
    /\ gen = [g \in GenIds |-> NoGen]
    /\ pre = [g \in GenIds |-> NoState]
    /\ tr = NoTrace
    /\ att = NoAttempt
    /\ file = NoFile
    /\ run = NoRun

NextExplore ==
    \/ ExpPop
    \/ ExpCheck
    \/ ExpSucc
    \/ ExpEnqueue
    \/ ExpYield
    \/ ExpStop
    \/ \E state \in Met(exp) \cup {Elsewhere} : TraceCall(state)
    \/ SaveCall
SpecExplore == InitExplore /\ [][NextExplore]_vars

\* ---- KeyboardInterrupt in the iterator (__main__.reach catches it)
\* the number of interrupts of one exploration
MaxStops == 1

\* the interrupt is raised inside the loop body: after the pop or during
\* the evaluation of props ("popped"), during tuple(self.system.succ(state))
\* ("checked": the generator of succ is closed, its finally clause puts
\* back the state it saved, which is the popped state), or in the loop
\* over the successors ("recorded").  The iterator is finished; the fields
\* of the Explorer stay as they are.
ExpInterrupt ==
    /\ exp.pc \in {"popped", "checked", "recorded"}
    /\ exp.stops < MaxStops
    /\ exp' = [exp EXCEPT !.pc = "interrupted", !.stops = @ + 1]
    /\ sys' = IF exp.pc = "checked" THEN SetSystemState(sys, exp.state)
              ELSE sys
    /\ UNCHANGED <<gen, pre, tr, att, file, run>>

\* the interrupt is raised after self.todo.append(s) and before
\* self.succ[s] = None
ExpInterruptAppend ==
    /\ exp.pc = "recorded"
    /\ exp.stops < MaxStops
    /\ exp.idx <= Len(ExpSuccs)
    /\ LET s == ExpSuccs[exp.idx][1]
       IN /\ s \notin DOMAIN exp.succ
          /\ (exp.limit = NoLimit \/ ExpLen(exp) < exp.limit)
          /\ exp' = [exp EXCEPT !.pc = "interrupted", !.stops = @ + 1,
                                !.todo = Append(@, s)]
    /\ UNCHANGED <<sys, gen, pre, tr, att, file, run>>

\* the caller iterates the Explorer again: __iter__ starts a new loop
\* over what self.todo holds
ExpResume ==
    /\ exp.pc = "interrupted"
    /\ exp' = [exp EXCEPT !.pc = "ready"]
    /\ tr' = NoTrace
    /\ file' = NoFile
    /\ UNCHANGED <<sys, gen, pre, att, run>>

\* explorations of the finite network, without limit or with a small one,
\* without invariant or with two of them
ResumeLimits == {NoLimit, 3}
ResumeProps == {<<>>, <<PropCur0, PropDiv>>}
InitResume ==
    /\ \E s \in RingSystems, depth \in BOOLEAN, limit \in ResumeLimits,
          props \in ResumeProps :
          /\ sys = s
          /\ exp = Explorer(s, depth, limit, props)
    /\ gen = [g \in GenIds |-> NoGen]
    /\ pre = [g \in GenIds |-> NoState]
    /\ tr = NoTrace
    /\ att = NoAttempt
    /\ file = NoFile
    /\ run = NoRun

NextResume ==
    \/ NextExplore
    \/ ExpInterrupt
    \/ ExpInterruptAppend
    \/ ExpResume
SpecResume == InitResume /\ [][NextResume]_vars
\* ------------------------------------------------------ claims on Explorer
\* the states waiting in the worklist
InTodo(e) == {e.todo[i] : i \in 1..Len(e.todo)}

\* every node of the state is in one of its locations
ValidState(state) ==
    \A n \in DOMAIN sys.nodes :
        /\ 0 <= Cur(state, n)
        /\ Cur(state, n) < TupLen(sys.nodes[n].locations)

\* C11: in a network whose targets and initial locations are valid, every
\* state succ yields and every state the Explorer records (as a key of
\* Explorer.succ, in a successor tuple or in the worklist) has each node's
\* current within the node's locations, and so has the live System.
C11_LocationIndex ==
    /\ \A st \in Met(exp) \cup InTodo(exp) : ValidState(st)
    /\ ValidState(SystemState(sys))

\* an exploration has ended after recording a state, other than the
\* initial one, whose nodes are both in their last location
C11_Witness ==
    /\ exp.pc = "stopped"
    /\ \E k \in DOMAIN exp.succ :
          /\ k # exp.init
          /\ \A n \in DOMAIN sys.nodes :
                Cur(k, n) = TupLen(sys.nodes[n].locations) - 1
\* ===================================================== Struct.__setattr__
\* the fields of each class of ena.py, TRUE for the ones declared const
\* (count is the mutable field that examples/counter.py adds to Node)
SystemFields == [nodes |-> TRUE]
NodeFields == [inputs |-> TRUE, locations |-> TRUE, current |-> FALSE,
               count |-> FALSE]
TransitionFields == [target |-> TRUE, action |-> TRUE]

\* mutant: a const field is assigned as any other field
SetAttr_NoConst(fields, obj, name, value) ==
    IF name \notin DOMAIN fields THEN [obj |-> obj, err |-> "TypeError"]
    ELSE [obj |-> [obj EXCEPT ![name] = value], err |-> ""]

\* obj.name = value, once obj is constructed and for a name other than
\* "state": the object after the assignment and the error raised
SetAttr(fields, obj, name, value) ==
    IF name \notin DOMAIN fields THEN [obj |-> obj, err |-> "TypeError"]
    ELSE IF fields[name] THEN [obj |-> obj, err |-> "TypeError"]
    ELSE [obj |-> [obj EXCEPT ![name] = value], err |-> ""]

\* the names and values the caller assigns: every field of the object and
\* one that its class does not declare; a location or a counter for the integer
\* fields, an empty tuple for the arrays
AttrNames(obj) == DOMAIN obj \cup {"label"}
AttrValues(name) ==
    IF name \in {"nodes", "inputs", "locations"} THEN {Tup0(<<>>)}
    ELSE IF name = "action" THEN {"skip"}
    ELSE 0..MaxCount

\* what is kept of an assignment: its target, the System before and after
Attempt(kind, name, before, after, err) ==
    [made |-> TRUE, kind |-> kind, name |-> name, before |-> before,
     after |-> after, err |-> err]

\* system.name = value
AttrSystem(name, value) ==
    LET r == SetAttr(SystemFields, sys, name, value)
    IN /\ sys' = r.obj
       /\ att' = Attempt("system", name, sys, r.obj, r.err)
       /\ UNCHANGED <<gen, pre, exp, tr, file, run>>

\* system.nodes[n].name = value
AttrNode(n, name, value) ==
    LET r == SetAttr(NodeFields, sys.nodes[n], name, value)
        after == [sys EXCEPT !.nodes[n] = r.obj]
    IN /\ sys' = after
       /\ att' = Attempt("node", name, sys, after, r.err)
       /\ UNCHANGED <<gen, pre, exp, tr, file, run>>

\* system[path].name = value, for the path of a transition
AttrTransition(path, name, value) ==
    LET r == SetAttr(TransitionFields, TransAt(sys, path), name, value)
        after == [sys EXCEPT
                     !.nodes[path[2]].locations[path[4]].transitions[path[6]]
                         = r.obj]
    IN /\ sys' = after
       /\ att' = Attempt("transition", name, sys, after, r.err)
       /\ UNCHANGED <<gen, pre, exp, tr, file, run>>

\* system.state = state
AttrState(state) ==
    /\ sys' = SetSystemState(sys, state)
    /\ att' = NoAttempt
    /\ UNCHANGED <<gen, pre, exp, tr, file, run>>

\* tuple(system.succ(state)), errors caught
AttrSucc(state) ==
    /\ sys' = SuccAll(sys, state).system
    /\ att' = NoAttempt
    /\ UNCHANGED <<gen, pre, exp, tr, file, run>>

NextAttr ==
    \/ \E name \in AttrNames(sys) :
          \E value \in AttrValues(name) : AttrSystem(name, value)
    \/ \E n \in NodeIds, name \in AttrNames(NodeFields) :
          \E value \in AttrValues(name) : AttrNode(n, name, value)
    \/ \E path \in {Path(0, 0, 1), Path(1, 1, 2)},
          name \in AttrNames(TransitionFields) :
          \E value \in AttrValues(name) : AttrTransition(path, name, value)
    \/ \E state \in EdgeStates : AttrState(state)
    \/ \E state \in EdgeStates \cup {NoState} : AttrSucc(state)
SpecAttr == Init /\ [][NextAttr]_vars

\* what of a System is not part of its state
Topology(system) ==
    [n \in DOMAIN system.nodes |->
        [inputs |-> system.nodes[n].inputs,
         locations |-> system.nodes[n].locations]]

\* C12: the topology of the System (nodes, inputs, locations, transitions,
\* targets, actions) is the one it was built with, whatever succ calls,
\* state assignments and attribute assignments have been made; assigning
\* a const field or a field that is not declared raises TypeError and
\* leaves the System as it was.
C12_Immutable ==
    /\ DOMAIN sys = {"nodes"}
    /\ \A n \in DOMAIN sys.nodes : DOMAIN sys.nodes[n] = DOMAIN NodeFields
    /\ Topology(sys) = Topology(Net)
    /\ (att.made /\ att.name \notin {"current", "count"})
          => (att.err = "TypeError" /\ att.after = att.before)
    /\ (att.made /\ att.kind # "node")
          => (att.err = "TypeError" /\ att.after = att.before)

\* a const field of a node has been assigned after the System has moved
C12_Witness ==
    /\ att.made
    /\ att.kind = "node"
    /\ att.name = "locations"
    /\ att.err = "TypeError"
    /\ sys # Net
NoDuplicate(seq) ==
    \A i, j \in 1..Len(seq) : i # j => seq[i] # seq[j]

\* the states found in the successor tuple of a recorded state
SuccStates(e, k) == {e.succ[k].succs[j][1] : j \in 1..Len(e.succ[k].succs)}

\* C13: at every point of an exploration, breadth- or depth-first, with or
\* without a limit, succ has been computed at most once for each state, no
\* state is twice in the worklist, and no state of the worklist has been
\* expanded or is being expanded.
C13_NoDuplicate ==
    /\ NoDuplicate(exp.expanded)
    /\ NoDuplicate(exp.todo)
    /\ \A i \in 1..Len(exp.todo), j \in 1..Len(exp.expanded) :
          exp.todo[i] # exp.expanded[j]
    /\ exp.pc \in {"popped", "checked"} => exp.state \notin InTodo(exp)

\* an exploration has ended in which the initial state is its own
\* successor and the successor of a state reached from it
C13_Witness ==
    /\ exp.pc = "stopped"
    /\ exp.init \in DOMAIN exp.succ
    /\ exp.init \in SuccStates(exp, exp.init)
    /\ \E k \in DOMAIN exp.succ \ {exp.init} :
          /\ ~exp.succ[k].pending
          /\ exp.init \in SuccStates(exp, k)
    /\ Len(exp.expanded) >= 4
\* what succ yields from a state when it is called on a System in that
\* state, and the states among it
SuccFrom(system, state) == SuccAll(SetSystemState(system, state), state).out
NextStates(system, state) ==
    UNION {{out[j][1] : j \in 1..Len(out)} :
              out \in {SuccFrom(system, state)}}

\* the states reachable from a set of states, by iteration to a fixpoint
RECURSIVE ReachFrom(_, _)
ReachFrom(system, set) ==
    CHOOSE r \in {IF next = set THEN set ELSE ReachFrom(system, next) :
                     next \in {set \cup UNION {NextStates(system, st) :
                                                  st \in set}}} : TRUE

\* C14: when an exploration without limit has run until the worklist is
\* empty (so no invariant failed), the keys of Explorer.succ are exactly
\* the states reachable from the initial state, every key maps to the
\* whole tuple of its successors, none to the pending marker, and every
\* state of a tuple is a key.
C14_Complete ==
    (exp.pc = "stopped" /\ exp.limit = NoLimit) =>
        /\ DOMAIN exp.succ = ReachFrom(sys, {exp.init})
        /\ \A k \in DOMAIN exp.succ :
              /\ ~exp.succ[k].pending
              /\ exp.succ[k].succs = SuccFrom(sys, k)
              /\ SuccStates(exp, k) \subseteq DOMAIN exp.succ

\* a depth-first exploration without limit has ended with every
\* combination of locations of the two nodes recorded
C14_Witness ==
    /\ exp.pc = "stopped"
    /\ exp.limit = NoLimit
    /\ exp.depth
    /\ exp.props # <<>>
    /\ ExpLen(exp) = 9
\* the value of an assertion in a state
PropAt(prop, state) == EvalProp(prop, SetSystemState(sys, state))

\* every assertion of the Explorer is true in the state
Satisfies(e, state) ==
    \A i \in 1..Len(e.props) : PropAt(e.props[i], state) = "True"

\* C15: the popped state, the initial one included, is in the System when
\* the assertions are evaluated, and they are evaluated before succ is
\* called; the violation names the first assertion, in the order of
\* props, that is false or raises in that state, the state and the error
\* raised (none for a false value); the state is not expanded, so every
\* state with a recorded successor tuple satisfies every assertion.
C15_Invariants ==
    /\ exp.pc \in {"popped", "checked", "failed"} =>
          /\ SystemState(sys) = exp.state
          /\ exp.state \notin {exp.expanded[j] : j \in 1..Len(exp.expanded)}
          /\ exp.state \in DOMAIN exp.succ => exp.succ[exp.state].pending
    /\ exp.pc = "checked" => Satisfies(exp, exp.state)
    /\ exp.pc = "failed" =>
          /\ exp.err.state = exp.state
          /\ \E i \in 1..Len(exp.props) :
                /\ exp.err.prop = exp.props[i]
                /\ \A h \in 1..(i - 1) : PropAt(exp.props[h], exp.state) = "True"
                /\ PropAt(exp.props[i], exp.state) # "True"
                /\ exp.err.err = IF PropAt(exp.props[i], exp.state) = "False"
                                 THEN ""
                                 ELSE PropAt(exp.props[i], exp.state)
    /\ \A j \in 1..Len(exp.expanded) : Satisfies(exp, exp.expanded[j])
    /\ \A k \in DOMAIN exp.succ : ~exp.succ[k].pending => Satisfies(exp, k)

\* the exploration has stopped on a state, not the initial one, in which
\* neither of two assertions is true, after states that satisfy them were
\* expanded
C15_Witness ==
    /\ exp.pc = "failed"
    /\ exp.state # exp.init
    /\ Len(exp.props) = 2
    /\ exp.err.prop = exp.props[1]
    /\ PropAt(exp.props[2], exp.state) # "True"
    /\ Len(exp.expanded) >= 2
\* ---- claims on Explorer.trace
\* the firings recorded for a state: none if it is not a key or waits
Recorded(e, k) ==
    IF k \in DOMAIN e.succ /\ ~e.succ[k].pending
    THEN {e.succ[k].succs[j] : j \in 1..Len(e.succ[k].succs)}
    ELSE {}

\* the events go from the initial state to `state` along recorded firings
IsPath(e, events, state) ==
    /\ events # <<>>
    /\ events[1] = Event(e.init, NoTrans, 0)
    /\ events[Len(events)].state = state
    /\ \A i \in 2..Len(events) :
          /\ events[i].trans # NoTrans
          /\ <<events[i].state, events[i].trans, events[i].cost>>
                \in Recorded(e, events[i - 1].state)

\* trace has been called with `state` and the Explorer is as it was
TracedFor(state) == tr.called /\ tr.state = state

\* C16: when the exploration, breadth- or depth-first, has stopped on a
\* violation in state v, trace(v) returns without error a sequence of
\* events that goes from the initial state to v along recorded firings.
C16_Counterexample ==
    (exp.pc = "failed" /\ TracedFor(exp.err.state)) =>
        /\ tr.res.err = ""
        /\ IsPath(exp, tr.res.ret, exp.err.state)
\* C17: for every state t that is a key of Explorer.succ, trace(t) returns
\* a non-empty sequence whose first event is (initial state, None, 0),
\* whose last state is t, in which only the first event has no
\* transition and each later event is a recorded firing from the state of
\* the event before; trace(initial state) is the initial event alone.
C17_TraceCorrect ==
    (tr.called /\ tr.state \in DOMAIN exp.succ) =>
        /\ tr.res.err = ""
        /\ IsPath(exp, tr.res.ret, tr.state)
        /\ tr.state = exp.init =>
              tr.res.ret = <<Event(exp.init, NoTrans, 0)>>
\* the length of the shortest path of recorded firings from the states of
\* `frontier`, which are at distance d of the initial state, to `state`;
\* -1 if there is none
RECURSIVE DistFrom(_, _, _, _, _)
DistFrom(e, state, frontier, seen, d) ==
    IF state \in frontier THEN d
    ELSE CHOOSE r \in
             {IF next = {} THEN -1
              ELSE DistFrom(e, state, next, seen \cup next, d + 1) :
                 next \in {UNION {{stc[1] : stc \in Recorded(e, k)} :
                                     k \in frontier} \ seen}} : TRUE
Dist(e, state) == DistFrom(e, state, {e.init}, {e.init}, 0)

\* C18: for every state t that is a key of Explorer.succ, the number of
\* steps of trace(t) is the length of the shortest path from the initial
\* state to t in the recorded graph, breadth- or depth-first.
C18_Shortest ==
    (tr.called /\ tr.state \in DOMAIN exp.succ) =>
        /\ tr.res.err = ""
        /\ Len(tr.res.ret) - 1 = Dist(exp, tr.state)

\* C19: for every state t that is not a key of Explorer.succ, trace(t)
\* terminates and returns the empty sequence, after a complete or a
\* partial exploration (limit, violation, before any step).
C19_Unrecorded ==
    (tr.called /\ tr.state \notin DOMAIN exp.succ) =>
        /\ tr.res.err = ""
        /\ tr.res.ret = <<>>

\* a successor state has been dropped because of the limit
LimitHit(e) == e.limit # NoLimit /\ ~(Met(e) \subseteq DOMAIN e.succ)

\* C20: when an exploration has ended after the limit was hit, trace(t)
\* returns a path from the initial state to t along recorded firings for
\* every key t of Explorer.succ, the states dropped because of the limit
\* notwithstanding.
C20_Partial ==
    (exp.pc = "stopped" /\ LimitHit(exp) /\ tr.called
        /\ tr.state \in DOMAIN exp.succ) =>
        /\ tr.res.err = ""
        /\ IsPath(exp, tr.res.ret, tr.state)

\* C21: when an exploration has stopped with a failed invariant or with an
\* interrupt and save is called, save completes and writes one record for
\* every key of Explorer.succ, the keys that wait in the worklist included.
C21_SaveAfterStop ==
    (file.called /\ exp.pc \in {"failed", "interrupted"}) =>
        /\ file.err = ""
        /\ Len(file.records) = ExpLen(exp)
        /\ \A i \in 1..Len(exp.keys) :
              file.records[i].state = JsonState(exp.keys[i])

\* C22: when the iterator has been interrupted inside a step and resumed,
\* no state is expanded twice and, once the worklist of an exploration
\* without limit is empty, the keys of Explorer.succ are the reachable
\* states, each with the tuple of its successors.
C22_Resumable ==
    /\ NoDuplicate(exp.expanded)
    /\ (exp.pc = "stopped" /\ exp.limit = NoLimit) =>
          /\ DOMAIN exp.succ = ReachFrom(sys, {exp.init})
          /\ \A k \in DOMAIN exp.succ :
                /\ ~exp.succ[k].pending
                /\ exp.succ[k].succs = SuccFrom(sys, k)

\* C23: when the iterator has given control back for good (worklist
\* empty, with or without a limit, or AssertFailed raised) the state of the
\* System is the one it had when the Explorer was built.
C23_Scoped ==
    exp.pc \in {"stopped", "failed"} => SystemState(sys) = exp.init

\* C24: an Explorer built with a source that does not compile is not
\* built: AssertFailed is raised with the first such source and
\* SyntaxError as its cause, no state has been popped, succ has not been
\* called, nothing is recorded and the System is in the state it had.
C24_CompileFailure ==
    /\ (\E i \in 1..Len(exp.props) : ~Compiles(exp.props[i]))
          => exp.pc = "invalid"
    /\ exp.pc = "invalid" =>
          /\ \E i \in 1..Len(exp.props) :
                /\ exp.err.prop = exp.props[i]
                /\ ~Compiles(exp.props[i])
                /\ \A j \in 1..(i - 1) : Compiles(exp.props[j])
          /\ exp.err.err = "SyntaxError"
          /\ exp.err.state = NoState
          /\ exp.state = NoState
          /\ exp.todo = <<exp.init>>
          /\ exp.expanded = <<>>
          /\ exp.succ = NoSucc
          /\ SystemState(sys) = exp.init
          /\ ~tr.called /\ ~file.called

\* the second of two sources does not compile
C24_Witness ==
    /\ exp.pc = "invalid"
    /\ Len(exp.props) = 2
    /\ exp.err.prop = exp.props[2]
    /\ exp.err.prop = PropSyntax

\* ------------------------------------------- assignments of System.state
\* mutant: the tag of the State is not compared with the class
StateSetter_NoCheck(system, new) ==
    [system |-> SetSystemState(system, [new EXCEPT !.struct = "system"]),
     err |-> ""]

\* system.state = new: ValueError is raised when the tag of new is not the
\* lowercased name of the class, before the loop over the items of new
StateSetter(system, new) ==
    [system |-> SetSystemState(system, new),
     err |-> IF new.struct # "system" THEN "ValueError" ELSE ""]

\* the Systems of the model, with counters that have a value or are None
StateSystems ==
    {NetAt(cur, cnt) :
        cur \in {c \in [NodeIds -> 0..2] :
                    \A n \in NodeIds : c[n] \in DOMAIN Net.nodes[n].locations},
        cnt \in [NodeIds -> (0..MaxCount) \cup {None}]}

\* the States captured from them
Captured == {SystemState(s) : s \in StateSystems}

\* States of another kind: the State of a node, and the State captured
\* from a struct of a class with another name that has the same fields
WrongKind ==
    {NodeState(s.nodes[n]) : s \in StateSystems, n \in NodeIds}
    \cup {[c EXCEPT !.struct = "network"] : c \in Captured}

\* what the last assignment of System.state did
StateAttempt(new, before, r) ==
    [made |-> TRUE, kind |-> "state", name |-> "state", new |-> new,
     before |-> before, after |-> r.system, err |-> r.err]

\* system.state = new
StateAssign(new) ==
    /\ ~att.made
    /\ LET r == StateSetter(sys, new)
       IN /\ sys' = r.system
          /\ att' = StateAttempt(new, sys, r)
    /\ UNCHANGED <<gen, pre, exp, tr, file, run>>

SetterInit ==
    /\ sys \in StateSystems
    /\ gen = [g \in GenIds |-> NoGen]
    /\ pre = [g \in GenIds |-> NoState]
    /\ exp = NoExplorer
    /\ tr = NoTrace
    /\ att = NoAttempt
    /\ file = NoFile
    /\ run = NoRun

SetterNext == \E new \in Captured \cup WrongKind : StateAssign(new)
SpecSetter == SetterInit /\ [][SetterNext]_vars

\* C25: after an assignment to System.state of a State whose tag is not
\* the one of the System, an error has been raised and the System, its
\* nodes included, is as it was before the assignment.
C25_WrongKind ==
    (att.made /\ att.kind = "state" /\ att.new.struct # "system") =>
        /\ att.err = "ValueError"
        /\ att.after = att.before
        /\ sys = att.before

\* a State with the fields of the System and another tag has been
\* assigned while the System was in another state
C25_Witness ==
    /\ att.made
    /\ att.kind = "state"
    /\ att.new.struct = "network"
    /\ att.new.items # SystemState(att.before).items
    /\ att.err = "ValueError"

\* C26: after system.state = s, for a State s captured from the System in
\* any of its states and a System in any of its states, system.state is s.
C26_RoundTrip ==
    (att.made /\ att.kind = "state" /\ att.new \in Captured
        /\ att.err = "") =>
        SystemState(sys) = att.new

\* ------------------------------------------------------------------- diff
\* State(old_state.struct, ret): the tag is the lowercased name of the
\* class of the first argument, which is a str here; the State is returned
\* also when it is empty
DiffState(items) == [struct |-> "str", items |-> items]
Diffed(state) == [err |-> "", state |-> state]
DiffKeyError == [err |-> "KeyError", state |-> NoState]
IsEmpty(state) == DOMAIN state.items = {}

\* diff on the States of a node, whose items are plain values:
\* new_state[key] raises KeyError for a key of old_state that new_state
\* does not have; the keys of new_state alone are not looked at
DiffNode(old, new) ==
    IF \E f \in DOMAIN old.items : f \notin DOMAIN new.items
    THEN DiffKeyError
    ELSE Diffed(DiffState(
             [f \in {g \in DOMAIN old.items : new.items[g] # old.items[g]}
                 |-> new.items[f]]))

\* the diffs of the elements of two tuples of States (zip)
DiffNodes(old, new) ==
    [n \in DOMAIN old \cap DOMAIN new |-> DiffNode(old[n], new[n])]

\* simul.diff on the States of a System, whose only item is the tuple
\* nodes: None stands where an element has an empty diff, and the tuple
\* is kept if it is not None everywhere
DiffSystem(old, new) ==
    LET ds == DiffNodes(old.items.nodes, new.items.nodes)
        t == [n \in DOMAIN ds |->
                 IF IsEmpty(ds[n].state) THEN NoState ELSE ds[n].state]
        keep == IF \E n \in DOMAIN t : t[n] # NoState
                THEN {"nodes"} ELSE {}
    IN IF new.items.nodes = old.items.nodes
       THEN Diffed(DiffState([f \in {} |-> <<>>]))
       ELSE IF \E n \in DOMAIN ds : ds[n].err # "" THEN DiffKeyError
       ELSE Diffed(DiffState([f \in keep |-> t]))

\* a tuple as the list of its elements and back
ListOf(t) == [i \in 1..TupLen(t) |-> t[i - 1]]
NotEmptyDiff(d) == ~IsEmpty(d.state)

\* pygen.diff on the States of a System: the tuple holds the diffs that
\* are not empty, one after the other
DiffSystemGen(old, new) ==
    LET ds == DiffNodes(old.items.nodes, new.items.nodes)
        t == Tup0(SelectSeq(ListOf(ds), NotEmptyDiff))
        keep == IF TupLen(t) > 0 THEN {"nodes"} ELSE {}
    IN IF new.items.nodes = old.items.nodes
       THEN Diffed(DiffState([f \in {} |-> <<>>]))
       ELSE IF \E n \in DOMAIN ds : ds[n].err # "" THEN DiffKeyError
       ELSE Diffed(DiffState([f \in keep |->
                                 [n \in DOMAIN t |-> t[n].state]]))

\* a client computes diff(system.state, new) with both versions
DiffCall(new) ==
    /\ ~run.made
    /\ run' = [made |-> TRUE, fn |-> "diff", old |-> SystemState(sys),
               new |-> new,
               res |-> DiffSystem(SystemState(sys), new),
               pygen |-> DiffSystemGen(SystemState(sys), new)]
    /\ UNCHANGED <<sys, gen, pre, exp, tr, att, file>>

DiffNext == \E new \in Captured : DiffCall(new)
SpecDiff == SetterInit /\ [][DiffNext]_vars

\* the fields in which two States of a node differ
Differ(old, new) ==
    {f \in DOMAIN old.items \cup DOMAIN new.items :
        \/ f \notin DOMAIN old.items
        \/ f \notin DOMAIN new.items
        \/ old.items[f] # new.items[f]}

\* res is the structural diff of two States of the System
IsDiff(res, old, new) ==
    /\ res.err = ""
    /\ IsEmpty(res.state) <=> (old = new)
    /\ \A n \in NodeIds :
          LET fs == Differ(old.items.nodes[n], new.items.nodes[n])
          IN fs # {} =>
                /\ "nodes" \in DOMAIN res.state.items
                /\ n \in DOMAIN res.state.items.nodes
                /\ res.state.items.nodes[n] # NoState
                /\ DOMAIN res.state.items.nodes[n].items = fs
                /\ \A f \in fs \cap DOMAIN new.items.nodes[n].items :
                      res.state.items.nodes[n].items[f]
                          = new.items.nodes[n].items[f]

\* C27: diff(old, new), in simul and in pygen, is empty if and only if
\* old equals new and otherwise holds, for each node whose State differs,
\* at the place of the node exactly the fields that differ, with their new
\* values.
C27_Diff ==
    (run.made /\ run.fn = "diff") =>
        /\ IsDiff(run.res, run.old, run.new)
        /\ IsDiff(run.pygen, run.old, run.new)

\* ------------------------------------------------------- the saved graph
\* the (state, successor, cost) triples of Explorer.succ
Triples(e) ==
    UNION {{<<k, e.succ[k].succs[j][1], e.succ[k].succs[j][3]>> :
               j \in 1..Len(e.succ[k].succs)} : k \in DOMAIN e.succ}

\* the triples read from the saved records
Loaded(records) ==
    UNION {{<<records[i].state, records[i].succs[j].state,
              records[i].succs[j].action>> :
               j \in 1..Len(records[i].succs)} : i \in 1..Len(records)}

Pair ==
    System(<<
        Node(<<Input(1)>>,
             <<Location(<<Transition(1, "simple")>>), Location(<<>>)>>,
             0, None),
        Node(<<Input(0)>>,
             <<Location(<<Transition(1, "simple")>>), Location(<<>>)>>,
             0, None)
    >>)

\* examples/jump.py: every transition has the action that counts and
\* jumps; the template starts the nodes with current = 0 and count = 0
Loop ==
    System(<<
        Node(<<Input(1)>>,
             <<Location(<<Transition(1, "jump")>>),
               Location(<<Transition(0, "jump")>>)>>,
             0, 0),
        Node(<<Input(0)>>,
             <<Location(<<Transition(1, "jump")>>),
               Location(<<Transition(0, "jump")>>)>>,
             0, 0)
    >>)

\* a network with its nodes in the given locations and, where it has
\* counters, with the given counters
Placed(net, cur, cnt) ==
    [net EXCEPT !.nodes =
        [n \in DOMAIN net.nodes |->
            [net.nodes[n] EXCEPT
                !.current = cur[n],
                !.count = IF @ = None THEN None ELSE cnt[n]]]]

PairSystems ==
    {Placed(Pair, cur, cnt) :
        cur \in [NodeIds -> 0..1], cnt \in {[n \in NodeIds |-> 0]}}
LoopSystems ==
    {Placed(Loop, cur, cnt) :
        cur \in [NodeIds -> 0..1], cnt \in [NodeIds -> 0..MaxCount]}

\* what the client gives to succ: nothing, or in the network of
\* simple-bis.py any state of the network
ClientArgs(system) ==
    {NoState} \cup (IF system \in PairSystems
                    THEN {SystemState(s) : s \in PairSystems} ELSE {})

\* the number of successors a client fires one after the other
MaxFired == 3

\* a client that computes the successors of a state and makes one of
\* them the live state, as a stepper does
Client(system) ==
    [made |-> TRUE, fn |-> "succ", init |-> SystemState(system),
     fired |-> <<>>, called |-> FALSE, from |-> NoState, out |-> <<>>,
     err |-> ""]

\* tuple(system.succ(arg))
ClientSucc(arg) ==
    /\ run.made
    /\ run.fn = "succ"
    /\ ~run.called
    /\ LET r == SuccAll(sys, arg)
       IN /\ sys' = r.system
          /\ run' = [run EXCEPT
                !.called = TRUE,
                !.from = IF arg = NoState THEN SystemState(sys) ELSE arg,
                !.out = r.out,
                !.err = r.err]
    /\ UNCHANGED <<gen, pre, exp, tr, att, file>>

\* system.state = the state of the j-th successor
ClientFire(j) ==
    /\ run.made
    /\ run.fn = "succ"
    /\ run.called
    /\ run.err = ""
    /\ j \in 1..Len(run.out)
    /\ Len(run.fired) < MaxFired
    /\ sys' = SetSystemState(sys, run.out[j][1])
    /\ run' = [run EXCEPT !.called = FALSE, !.out = <<>>,
                          !.fired = Append(@, run.out[j][2])]
    /\ UNCHANGED <<gen, pre, exp, tr, att, file>>

ClientInit ==
    /\ sys \in PairSystems \cup LoopSystems
    /\ gen = [g \in GenIds |-> NoGen]
    /\ pre = [g \in GenIds |-> NoState]
    /\ exp = NoExplorer
    /\ tr = NoTrace
    /\ att = NoAttempt
    /\ file = NoFile
    /\ run = Client(sys)

ClientNext ==
    \/ \E arg \in ClientArgs(sys) : ClientSucc(arg)
    \/ \E j \in 1..2 : ClientFire(j)
SpecClient == ClientInit /\ [][ClientNext]_vars

\* the state of a network with its nodes in the given locations
PairState(c0, c1) ==
    SystemState(Placed(Pair, Tup0(<<c0, c1>>), [n \in NodeIds |-> 0]))

\* C29: in the network of simple-bis.py, succ from the state (0,0),
\* given or live, yields two successors: first the firing of node 0's
\* transition, then node 1's, each with cost 0 and with the firing node
\* alone moved to the target 1.
C29_ScenarioA ==
    (run.made /\ run.fn = "succ" /\ run.called /\ sys \in PairSystems
        /\ run.from = PairState(0, 0)) =>
        /\ run.err = ""
        /\ run.out = << <<PairState(1, 0), Path(0, 0, 0), 0>>,
                        <<PairState(0, 1), Path(1, 0, 0), 0>> >>

\* succ has been called with the state (0,0) while the System was in
\* another state
C29_Witness ==
    /\ run.made /\ run.fn = "succ" /\ run.called
    /\ sys \in PairSystems
    /\ run.from = PairState(0, 0)
    /\ run.init # PairState(0, 0)
    /\ run.fired = <<>>
    /\ Len(run.out) = 2

\* C30: in the network of jump.py started with both nodes at location 0
\* and both counters at 0, when two transitions of the same node have
\* been fired one after the other, succ yields for this node a third
\* firing whose state has the node's counter at 0 and nodes 0 and 1 at
\* location 0.
C30_ScenarioB ==
    (run.made /\ run.fn = "succ" /\ run.called /\ sys \in LoopSystems
        /\ run.init = SystemState(Loop)
        /\ Len(run.fired) = 2 /\ run.fired[1][2] = run.fired[2][2]
        /\ run.from = SystemState(sys)) =>
        /\ run.err = ""
        /\ \E j \in 1..Len(run.out) :
              /\ run.out[j][2][2] = run.fired[1][2]
              /\ run.out[j][1].items.nodes[run.fired[1][2]].items.count = 0
              /\ Cur(run.out[j][1], 0) = 0
              /\ Cur(run.out[j][1], 1) = 0

\* ------------------------------------------------ the stepper (simul.py)
\* the number of events of a trace and the arguments a user types
MaxTrace == 4
FireArgs == -1..2
BackArgs == 0..MaxTrace
TailArgs == 1..3

\* Simulator.cost: the sum of the costs of the whole trace
RECURSIVE CostOf(_, _)
CostOf(trace, n) == IF n = 0 THEN 0 ELSE CostOf(trace, n - 1) + trace[n].cost
SimCost(trace) == CostOf(trace, Len(trace))

\* seq[index] of Python: a negative index counts from the end; 0 stands
\* for IndexError
At(seq, index) ==
    IF 0 <= index /\ index < Len(seq) THEN index + 1
    ELSE IF index < 0 /\ -index <= Len(seq) THEN Len(seq) + index + 1
    ELSE 0

\* Simulator._print_event(index): the index and the cost it prints
Printed(trace, index) == [index |-> index, cost |-> SimCost(trace)]

\* Simulator(system): ini, trace and no events yet; run has not started
Simulator(system) ==
    [made |-> TRUE, fn |-> "stepper", pc |-> "new",
     ini |-> SystemState(system),
     trace |-> <<Event(SystemState(system), NoTrans, 0)>>,
     events |-> <<>>, shown |-> <<>>, cmd |-> "", err |-> ""]

\* the Events of a tuple of successors
EventsOf(succs) ==
    [j \in 1..Len(succs) |-> Event(succs[j][1], Trans(succs[j][2]), succs[j][3])]

\* Simulator._long_prompt on a Simulator whose trace has been updated: the
\* last event is printed, then the successors of its state are computed;
\* an error of succ leaves self.events as it was
LongPrompt(system, sim, cmd) ==
    CHOOSE res \in
        {[system |-> r.system,
          sim |-> [sim EXCEPT
                     !.pc = IF r.err # "" /\ cmd = "run" THEN "crashed"
                            ELSE "prompt",
                     !.cmd = cmd,
                     !.shown = <<Printed(sim.trace, Len(sim.trace) - 1)>>,
                     !.events = IF r.err = "" THEN EventsOf(r.out) ELSE @,
                     !.err = r.err]] :
            r \in {SuccAll(system, last) :
                      last \in {sim.trace[Len(sim.trace)].state}}} : TRUE

\* what a handler has done when it returns, raises or reaches its call of
\* _long_prompt: the trace, what it printed and the error it raised
Handled(trace, shown, err, prompt) ==
    [trace |-> trace, shown |-> shown, err |-> err, prompt |-> prompt]

\* _cmd_fire(num), up to _long_prompt
CmdFire(sim, num) ==
    IF At(sim.events, num) = 0
    THEN Handled(sim.trace, <<>>, "IndexError", FALSE)
    ELSE Handled(Append(sim.trace, sim.events[At(sim.events, num)]),
                 <<>>, "", TRUE)

\* _cmd_random, up to _long_prompt: secrets.choice has taken events[j - 1]
\* (j = 0: there was nothing to take)
CmdRandom(sim, j) ==
    IF j = 0 THEN Handled(sim.trace, <<>>, "IndexError", FALSE)
    ELSE Handled(Append(sim.trace, sim.events[j]), <<>>, "", TRUE)

\* _cmd_back(count), up to _long_prompt: the events are dropped one by
\* one and ValueError is raised when only the initial event is left,
\* after the others have been dropped
CmdBack(sim, count) ==
    IF count >= Len(sim.trace)
    THEN Handled(SubSeq(sim.trace, 1, 1), <<>>, "ValueError", FALSE)
    ELSE Handled(SubSeq(sim.trace, 1, Len(sim.trace) - count), <<>>, "", TRUE)

\* _cmd_reset, up to _long_prompt
CmdReset(sim) == Handled(<<Event(sim.ini, NoTrans, 0)>>, <<>>, "", TRUE)

\* _cmd_tail(count): the events len - count .. len - 1 are printed, first
\* first; an index below 0 is taken from the end of the list
CmdTail(sim, count) ==
    IF At(sim.trace, Len(sim.trace) - count) = 0
    THEN Handled(sim.trace, <<>>, "IndexError", FALSE)
    ELSE Handled(sim.trace,
                 [k \in 1..count |->
                     Printed(sim.trace, Len(sim.trace) - count + k - 1)],
                 "", FALSE)

\* _cmd_pass
CmdPass(sim) == Handled(sim.trace, <<>>, "", FALSE)

\* the command lines a user types: the name and the argument
Commands(sim) ==
    {[name |-> "fire", arg |-> num] : num \in FireArgs}
    \cup {[name |-> "random", arg |-> j] :
             j \in IF sim.events = <<>> THEN {0} ELSE 1..Len(sim.events)}
    \cup {[name |-> "back", arg |-> count] : count \in BackArgs}
    \cup {[name |-> "tail", arg |-> count] : count \in TailArgs}
    \cup {[name |-> "reset", arg |-> 0], [name |-> "pass", arg |-> 0]}

\* getattr(self, f"_cmd_{cmd}") and the call of the handler
Handler(sim, cmd) ==
    CASE cmd.name = "fire" -> CmdFire(sim, cmd.arg)
      [] cmd.name = "random" -> CmdRandom(sim, cmd.arg)
      [] cmd.name = "back" -> CmdBack(sim, cmd.arg)
      [] cmd.name = "tail" -> CmdTail(sim, cmd.arg)
      [] cmd.name = "reset" -> CmdReset(sim)
      [] cmd.name = "pass" -> CmdPass(sim)

\* Simulator.run up to the first prompt: an error of succ is not caught
SimRun ==
    /\ run.made /\ run.fn = "stepper" /\ run.pc = "new"
    /\ \E r \in {LongPrompt(sys, run, "run")} :
          sys' = r.system /\ run' = r.sim
    /\ UNCHANGED <<gen, pre, exp, tr, att, file>>

\* one turn of the loop of Simulator.run: a command is read, its handler
\* called; an error of the handler, _long_prompt included, is printed and
\* the loop goes on
SimCommand ==
    /\ run.made /\ run.fn = "stepper" /\ run.pc = "prompt"
    /\ \E cmd \in Commands(run) :
          \E h \in {Handler(run, cmd)} :
             /\ cmd.name \in {"fire", "random"} => Len(run.trace) < MaxTrace
             /\ IF h.prompt
                THEN \E r \in {LongPrompt(sys,
                                   [run EXCEPT !.trace = h.trace],
                                   cmd.name)} :
                        sys' = r.system /\ run' = r.sim
                ELSE /\ sys' = sys
                     /\ run' = [run EXCEPT !.trace = h.trace,
                                           !.shown = h.shown,
                                           !.cmd = cmd.name,
                                           !.err = h.err]
    /\ UNCHANGED <<gen, pre, exp, tr, att, file>>

\* the stepper on the networks of simple-bis.py and of jump.py
SimInit ==
    /\ sys \in {Pair, Loop}
    /\ gen = [g \in GenIds |-> NoGen]
    /\ pre = [g \in GenIds |-> NoState]
    /\ exp = NoExplorer
    /\ tr = NoTrace
    /\ att = NoAttempt
    /\ file = NoFile
    /\ run = Simulator(sys)

SimNext == SimRun \/ SimCommand
SpecSim == SimInit /\ [][SimNext]_vars

\* C31: the cost printed with event #i of the trace, by the prompt for
\* the last event and by `tail N` for the N last ones, is the sum of the
\* costs of the events 0..i.
C31_Cumulative ==
    (run.made /\ run.fn = "stepper") =>
        \A k \in 1..Len(run.shown) :
            run.shown[k].index >= 0 =>
                run.shown[k].cost = CostOf(run.trace, run.shown[k].index + 1)

\* C39: whatever commands the stepper has run, failed ones included, the
\* trace is not empty, starts with the initial event and every later
\* event is a successor succ yields for the state of the event before it.
C39_TraceConsistent ==
    (run.made /\ run.fn = "stepper") =>
        /\ Len(run.trace) >= 1
        /\ run.trace[1] = Event(run.ini, NoTrans, 0)
        /\ \A i \in 2..Len(run.trace) :
              \E out \in {SuccFrom(sys, run.trace[i - 1].state)} :
                 \E j \in 1..Len(out) :
                    run.trace[i] = Event(out[j][1], Trans(out[j][2]), out[j][3])


\* ---------------------------------------- order and limit of exploration
\* the keys of Explorer.succ that wait in the worklist, in the order they
\* were put there
IsWaiting(k) == exp.succ[k].pending
Waiting == SelectSeq(exp.keys, IsWaiting)

\* C32: breadth-first, the states are expanded in non-decreasing order of
\* their distance from the initial state and the state taken is the one
\* that has waited longest; depth-first, the state taken is the one put in
\* the worklist last among those not yet expanded.
C32_Order ==
    (exp.pc \notin {"none", "invalid"}) =>
        /\ ~exp.depth =>
              \A i \in 1..(Len(exp.expanded) - 1) :
                 Dist(exp, exp.expanded[i]) <= Dist(exp, exp.expanded[i + 1])
        /\ (exp.pc \in {"popped", "checked"} /\ exp.expanded # <<>>) =>
              /\ Waiting # <<>>
              /\ exp.state = IF exp.depth THEN Waiting[Len(Waiting)]
                             ELSE Waiting[1]

\* a state has been taken while another one waited, after two expansions
C32_Witness ==
    /\ exp.pc = "popped"
    /\ Len(exp.expanded) >= 2
    /\ Len(Waiting) >= 2

\* the successor states whose turn in the loop `for s, *_ in succ` is over
Processed(e) ==
    UNION {{e.succ[k].succs[j][1] :
               j \in 1..(IF e.pc = "recorded" /\ k = e.state THEN e.idx - 1
                         ELSE Len(e.succ[k].succs))} :
              k \in {x \in DOMAIN e.succ : ~e.succ[x].pending}}

\* the successor states that were met and not recorded
Dropped(e) == Processed(e) \ DOMAIN e.succ

\* C33: under a limit L >= 1 the Explorer never records more than L
\* states; a successor state is left out only once L states are recorded,
\* and it is then neither put in the worklist nor made a key, while it
\* stays in the successor tuple of the state it comes from.
C33_LimitBound ==
    (exp.pc \notin {"none", "invalid"} /\ exp.limit >= 1) =>
        /\ ExpLen(exp) <= exp.limit
        /\ \A s \in Dropped(exp) :
              /\ ExpLen(exp) = exp.limit
              /\ s \notin InTodo(exp)
              /\ \E k \in DOMAIN exp.succ : \E stc \in Recorded(exp, k) :
                    stc[1] = s

\* an exploration has ended with the limit reached and a state left out
C33_Witness ==
    /\ exp.pc = "stopped"
    /\ exp.limit >= 1
    /\ ExpLen(exp) = exp.limit
    /\ Dropped(exp) # {}

\* ------------------------------------------------------------ termination
\* the explorations whose end is looked at: the finite network with a
\* limit or none, the counter network (its counters grow without bound)
\* as it is built, its counters at 0, with a limit; the limit 0 included
TerminateLimits == {0, 1, 2, MaxLimit}
TerminateInits ==
    {[sys |-> s, limit |-> l] :
        s \in RingSystems, l \in TerminateLimits \cup {NoLimit}}
    \cup {[sys |-> s, limit |-> l] :
             s \in {x \in EdgeSystems :
                       \A n \in DOMAIN x.nodes : x.nodes[n].count = 0},
             l \in TerminateLimits}

InitTerminate ==
    /\ \E c \in TerminateInits, depth \in BOOLEAN, props \in ResumeProps :
          /\ sys = c.sys
          /\ exp = Explorer(c.sys, depth, c.limit, props)
    /\ gen = [g \in GenIds |-> NoGen]
    /\ pre = [g \in GenIds |-> NoState]
    /\ tr = NoTrace
    /\ att = NoAttempt
    /\ file = NoFile
    /\ run = NoRun

\* the steps of the iterator
NextIter ==
    \/ ExpPop
    \/ ExpCheck
    \/ ExpSucc
    \/ ExpEnqueue
    \/ ExpYield
    \/ ExpStop

\* the caller runs the iterator to its end (`for state, succ in explorer`):
\* a step that can be taken is taken
SpecTerminate == InitTerminate /\ [][NextIter]_vars /\ WF_vars(NextIter)

\* the iterator is over: exhausted, or left by AssertFailed or by an error
\* of succ
Ended == exp.pc \in {"stopped", "failed", "crashed"}

\* the network explored has counters, which grow without bound
Unbounded == "count" \in DOMAIN exp.init.items.nodes[0].items

\* C34: every exploration of a finite network, and every exploration under
\* a limit L of a network with unbounded counters, ends; it ends with an
\* empty worklist unless an error leaves the iterator, which does not
\* happen on the finite network explored without assertions; under a
\* limit L at most max(L, 1) states are expanded.
C34_Terminates ==
    /\ <>Ended
    /\ (exp.props = <<>> /\ ~Unbounded) =>
          <>(exp.pc = "stopped" /\ exp.todo = <<>>)
    /\ [](exp.pc = "stopped" => exp.todo = <<>>)
    /\ [](exp.limit # NoLimit =>
             Len(exp.expanded) <= IF exp.limit > 1 THEN exp.limit ELSE 1)

\* an exploration of the counter network has ended on an empty worklist
\* after as many expansions as the limit allows
C34_Witness ==
    /\ exp.pc = "stopped"
    /\ Unbounded
    /\ exp.limit >= 2
    /\ Len(exp.expanded) = exp.limit
    /\ Dropped(exp) # {}

\* ------------------------------------------------- a call of an action
\* the actions called: they assign fields; `skip` and `reset` return None.
\* `skip` and `counter` add 1 to the counter, which must hold a number.
Invocable(system, n) ==
    {"reset"} \cup (IF system.nodes[n].count # None
                    THEN {"skip", "counter"} ELSE {})

\* Method.__call__ of the action of a transition of node n
MethodInvoke(action, n) ==
    /\ ~run.made
    /\ \E ret \in {MethodCall(action, sys, n)} :
          /\ sys' = ret.system
          /\ run' = [made |-> TRUE, fn |-> "method", action |-> action,
                     node |-> n, before |-> sys, kind |-> ret.kind]
    /\ UNCHANGED <<gen, pre, exp, tr, att, file>>

MethodNext ==
    \E n \in NodeIds : \E action \in Invocable(sys, n) :
        MethodInvoke(action, n)
SpecMethod == SetterInit /\ [][MethodNext]_vars

\* C35: after a call of an action that has returned None, every field of
\* the System, of its nodes included, has the value it had before the call.
C35_NoneRollback ==
    (run.made /\ run.fn = "method" /\ run.kind = "none") =>
        sys = run.before

\* ------------------------------------------------------------------ array
\* the length of the lists an array is built from, and the values stored
MaxLen == 3
ArrValues == {0, 1}
ArrLists == UNION {[1..k -> ArrValues] : k \in 0..MaxLen}

\* the right-hand side of a slice assignment: a list, or an iterator, which
\* can be run through once
ArrSources ==
    {[items |-> l, once |-> o] :
        l \in {x \in ArrLists : Len(x) <= 2}, o \in BOOLEAN}

\* array(int, items): size is the length at construction
Array(items) ==
    [made |-> TRUE, fn |-> "array", items |-> items, size |-> Len(items),
     op |-> "", err |-> ""]

\* the methods that raise TypeError and leave the list as it is
Refuse(arr, op) == [arr EXCEPT !.op = op, !.err = "TypeError"]

\* list.pop(index), which array does not define: the item is removed
ArrayPop(arr, index) ==
    IF At(arr.items, index) = 0
    THEN [arr EXCEPT !.op = "pop", !.err = "IndexError"]
    ELSE [arr EXCEPT
            !.op = "pop", !.err = "",
            !.items = SubSeq(@, 1, At(arr.items, index) - 1)
                      \o SubSeq(@, At(arr.items, index) + 1, Len(@))]

\* array.__setitem__(index, value) with an integer index
ArraySetItem(arr, index, value) ==
    IF At(arr.items, index) = 0
    THEN [arr EXCEPT !.op = "setitem", !.err = "IndexError"]
    ELSE [arr EXCEPT !.op = "setitem", !.err = "",
                     !.items[At(arr.items, index)] = value]

\* array.__setitem__(slice(lo, hi), value): the lengths are compared with
\* len(list(value)), which runs through an iterator; the items assigned
\* are then what is left of value
ArraySetSlice(arr, lo, hi, value) ==
    IF hi - lo # Len(value.items)
    THEN [arr EXCEPT !.op = "setslice", !.err = "TypeError"]
    ELSE [arr EXCEPT
            !.op = "setslice", !.err = "",
            !.items = SubSeq(@, 1, lo)
                      \o (IF value.once THEN <<>> ELSE value.items)
                      \o SubSeq(@, hi + 1, Len(@))]

ArrAppend ==
    /\ run.made /\ run.fn = "array"
    /\ run' = Refuse(run, "append")
    /\ UNCHANGED <<sys, gen, pre, exp, tr, att, file>>
ArrExtend ==
    /\ run.made /\ run.fn = "array"
    /\ run' = Refuse(run, "extend")
    /\ UNCHANGED <<sys, gen, pre, exp, tr, att, file>>
ArrClear ==
    /\ run.made /\ run.fn = "array"
    /\ run' = Refuse(run, "clear")
    /\ UNCHANGED <<sys, gen, pre, exp, tr, att, file>>
ArrInsert ==
    /\ run.made /\ run.fn = "array"
    /\ run' = Refuse(run, "insert")
    /\ UNCHANGED <<sys, gen, pre, exp, tr, att, file>>
ArrRemove ==
    /\ run.made /\ run.fn = "array"
    /\ run' = Refuse(run, "remove")
    /\ UNCHANGED <<sys, gen, pre, exp, tr, att, file>>
\* del a[i] and del a[i:j]
ArrDelItem ==
    /\ run.made /\ run.fn = "array"
    /\ run' = Refuse(run, "delitem")
    /\ UNCHANGED <<sys, gen, pre, exp, tr, att, file>>
ArrIAdd ==
    /\ run.made /\ run.fn = "array"
    /\ run' = Refuse(run, "iadd")
    /\ UNCHANGED <<sys, gen, pre, exp, tr, att, file>>
ArrIMul ==
    /\ run.made /\ run.fn = "array"
    /\ run' = Refuse(run, "imul")
    /\ UNCHANGED <<sys, gen, pre, exp, tr, att, file>>
ArrPop ==
    /\ run.made /\ run.fn = "array"
    /\ \E index \in -1..1 : run' = ArrayPop(run, index)
    /\ UNCHANGED <<sys, gen, pre, exp, tr, att, file>>
ArrSetItem ==
    /\ run.made /\ run.fn = "array"
    /\ \E index \in -1..MaxLen, value \in ArrValues :
          run' = ArraySetItem(run, index, value)
    /\ UNCHANGED <<sys, gen, pre, exp, tr, att, file>>
ArrSetSlice ==
    /\ run.made /\ run.fn = "array"
    /\ \E lo \in 0..Len(run.items), value \in ArrSources :
          \E hi \in lo..Len(run.items) :
             run' = ArraySetSlice(run, lo, hi, value)
    /\ UNCHANGED <<sys, gen, pre, exp, tr, att, file>>

ArrayInit ==
    /\ sys = Pair
    /\ gen = [g \in GenIds |-> NoGen]
    /\ pre = [g \in GenIds |-> NoState]
    /\ exp = NoExplorer
    /\ tr = NoTrace
    /\ att = NoAttempt
    /\ file = NoFile
    /\ \E items \in ArrLists : run = Array(items)

ArrayNext ==
    \/ ArrAppend \/ ArrExtend \/ ArrClear \/ ArrInsert \/ ArrRemove
    \/ ArrDelItem \/ ArrIAdd \/ ArrIMul \/ ArrPop \/ ArrSetItem
    \/ ArrSetSlice
SpecArray == ArrayInit /\ [][ArrayNext]_vars

\* C36: after any sequence of list operations on an array its length is
\* the length it was built with.
C36_FixedLength ==
    (run.made /\ run.fn = "array") => Len(run.items) = run.size

\* ------------------------------------- the declarative generator (pygen)
\* a network of transitions given by guard, cost and update: `move` has
\* the guard True, the cost of simple.py and an update that puts its node
\* in the target; `stay` is the transition of simple.py, whose update is
\* `pass`; `blocked` has the guard False
PyNet ==
    System(<<
        Node(<<Input(1)>>,
             <<Location(<<Transition(1, "move"), Transition(0, "stay")>>),
               Location(<<Transition(2, "move"), Transition(0, "blocked")>>),
               Location(<<Transition(0, "move")>>)>>,
             0, None),
        Node(<<Input(0)>>,
             <<Location(<<Transition(1, "move")>>),
               Location(<<Transition(0, "move"), Transition(1, "stay")>>)>>,
             0, None)>>)

PyAt(cur) ==
    [PyNet EXCEPT !.nodes =
        [n \in DOMAIN PyNet.nodes |-> [PyNet.nodes[n] EXCEPT !.current = cur[n]]]]
PySystems ==
    {PyAt(cur) :
        cur \in {c \in [DOMAIN PyNet.nodes -> 0..2] :
                    \A n \in DOMAIN PyNet.nodes :
                        c[n] \in DOMAIN PyNet.nodes[n].locations}}

\* Simulator.get_state and set_state: the fields of __state__ that are not
\* None, nested as the structs are; the keys of the state are written
GetState(system) == SystemState(system)
SetState(system, state) == SetSystemState(system, state)

\* trans.guard(), trans.cost() and trans.update() of the transition of
\* node n: cost is the one of simple.py
PyGuard(trans) == trans.action # "blocked"
PyCost(system, n) == IF sameloc(system, n) THEN 0 ELSE 1
PyUpdate(trans, system, n) ==
    IF trans.action = "move"
    THEN [system EXCEPT !.nodes[n].current = trans.target]
    ELSE system

\* the loops of Simulator.succ, the generator run to its end.  `trs` is
\* the tuple the inner loop runs over, taken when the loop of node n
\* starts; `tried` lists the transitions whose guard has been called, each
\* with the location that owns it.
RECURSIVE PyNodes(_, _, _, _, _)
RECURSIVE PyTrans(_, _, _, _, _, _, _)
PyTrans(system, state, n, loc, t, out, tried) ==
    IF t \notin DOMAIN system.nodes[n].locations[loc].transitions
    THEN PyNodes(system, state, n + 1, out, tried)
    ELSE CHOOSE r \in
        {IF PyGuard(trans)
         THEN CHOOSE r2 \in
                 {PyTrans(upd, state, n, loc, t + 1,
                          Append(out,
                                 <<GetState(upd),
                                   Path(n, upd.nodes[n].current, t),
                                   PyCost(set, n)>>),
                          Append(tried, Path(n, loc, t))) :
                     upd \in {PyUpdate(trans, set, n)}} : TRUE
         ELSE PyTrans(set, state, n, loc, t + 1, out,
                      Append(tried, Path(n, loc, t))) :
            set \in {SetState(system, state)},
            trans \in {system.nodes[n].locations[loc].transitions[t]}} : TRUE

PyNodes(system, state, n, out, tried) ==
    IF n \notin DOMAIN system.nodes
    THEN [system |-> system, out |-> out, tried |-> tried]
    ELSE PyTrans(system, state, n, system.nodes[n].current, 0, out, tried)

\* tuple(Simulator.succ(state)): old is read, the loops run, old is
\* written back
PySucc(system, arg) ==
    CHOOSE r \in
        {[system |-> SetState(res.system, GetState(system)),
          out |-> res.out, tried |-> res.tried] :
            res \in {PyNodes(system,
                             IF arg = NoState THEN GetState(system) ELSE arg,
                             0, <<>>, <<>>)}} : TRUE

\* the calls of succ a client makes in a row
MaxCalls == 2

\* a client calls succ, with a state or without
PySuccCall(arg) ==
    /\ run.fn = "pysucc"
    /\ run.calls < MaxCalls
    /\ \E r \in {PySucc(sys, arg)} :
          /\ sys' = r.system
          /\ run' = [run EXCEPT
                !.calls = @ + 1,
                !.from = IF arg = NoState THEN GetState(sys) ELSE arg,
                !.given = arg # NoState,
                !.live = GetState(sys),
                !.out = r.out,
                !.tried = r.tried]
    /\ UNCHANGED <<gen, pre, exp, tr, att, file>>

\* simulator.state = the state of a successor it got
PyFire(j) ==
    /\ run.fn = "pysucc"
    /\ run.calls >= 1
    /\ j \in 1..Len(run.out)
    /\ GetState(sys) # run.out[j][1]
    /\ sys' = SetState(sys, run.out[j][1])
    /\ UNCHANGED <<gen, pre, exp, tr, att, file, run>>

PyInit ==
    /\ sys \in PySystems
    /\ gen = [g \in GenIds |-> NoGen]
    /\ pre = [g \in GenIds |-> NoState]
    /\ exp = NoExplorer
    /\ tr = NoTrace
    /\ att = NoAttempt
    /\ file = NoFile
    /\ run = [made |-> TRUE, fn |-> "pysucc", calls |-> 0, from |-> NoState,
              given |-> FALSE, live |-> NoState, out |-> <<>>,
              tried |-> <<>>]

PyNext ==
    \/ \E arg \in {NoState} \cup {GetState(s) : s \in PySystems} :
          PySuccCall(arg)
    \/ \E j \in 1..3 : PyFire(j)
SpecPygen == PyInit /\ [][PyNext]_vars

\* C37: the path of each successor pygen's succ yields names the node, the
\* location this node has in the state explored and the index of the
\* transition in this location, whatever the update does.
C37_PygenPath ==
    (run.fn = "pysucc" /\ run.calls >= 1) =>
        \A j \in 1..Len(run.out) :
            \E n \in DOMAIN sys.nodes :
                \E t \in DOMAIN sys.nodes[n].locations[Cur(run.from, n)]
                                    .transitions :
                    run.out[j][2] = Path(n, Cur(run.from, n), t)

\* C38: pygen's succ called with a state that is not the live one calls
\* the guards of the transitions of the location each node has in the
\* state given, in the order of the nodes and of the transitions, and of
\* no other.
C38_PygenSource ==
    (run.fn = "pysucc" /\ run.calls >= 1 /\ run.given
        /\ run.from # run.live) =>
        run.tried = Todo(SetState(sys, run.from))
====
